---- MODULE Spec2Model ----
(***************************************************************************)
(* Invoice verification pipeline: remote tracking store client             *)
(* (SharePointTracker), document sync, human validation, the batch         *)
(* pipeline (process_with_ai.generate), the OCR orchestrator with its      *)
(* background worker, the extraction engine and the processing session     *)
(* state.                                                                  *)
(***************************************************************************)
EXTENDS Integers, Sequences, FiniteSets, TLC

\* ------------------------------------------------------------------ bounds
\* Number of documents (GCDocs nodes) in the invoices folder.
NumDocs == 2
\* Cap on the number of cancel requests modelled (each appends a log line).
MaxCancels == 1
\* Largest page count of a PDF and largest max_pages argument of perform_ocr.
MaxDocPages == 3

Docs == 1..NumDocs

\* ------------------------------------------------------------ Python values
\* str(n) of an integer: an injective tagged encoding of the decimal string.
Str(n) == <<"str", n>>
\* int(s) of such a string.
Int_(s) == s[2]

\* A raw numeric argument as Python sees it: a number, NaN, an infinity, or
\* something float() cannot parse (text, "", None).
Num(n) == [k |-> "num", v |-> n]
NaN == [k |-> "nan", v |-> 0]
Inf == [k |-> "inf", v |-> 0]
Text == [k |-> "text", v |-> 0]

\* A raw flag argument as Python sees it: a bool, an int, a string (v is its
\* length) or None.
PyBool(b) == [k |-> "bool", v |-> IF b THEN 1 ELSE 0]
PyInt(n) == [k |-> "int", v |-> n]
PyStr(len) == [k |-> "str", v |-> len]
PyNone == [k |-> "none", v |-> 0]
\* bool(x): None, False, 0 and "" are false, everything else is true.
bool(x) == x.k # "none" /\ x.v # 0

\* dict.get(key, default)
Get(d, key, default) == IF key \in DOMAIN d THEN d[key] ELSE default

\* ------------------------------------------------------- SharePointTracker
\* clean_float: float(val); NaN and infinities, and anything float() rejects,
\* become 0.0.
clean_float(val) == IF val.k = "num" THEN val.v ELSE 0

\* The fields dict create_or_update_item sends, built from its arguments.
fields(node_id, filename, gcdocs_url, metadata) ==
    [ NodeID |-> Str(node_id),
      Filename |-> filename,
      GCDocsURL |-> gcdocs_url,
      AI_InvoiceNumber |-> Get(metadata, "ai_invoice_number", ""),
      AI_InvoiceDate |-> Get(metadata, "ai_invoice_date", ""),
      AI_CompanyName |-> Get(metadata, "ai_company_name", ""),
      AI_TotalAmount |-> clean_float(Get(metadata, "ai_total_amount", Num(0))),
      AI_Processed |-> bool(Get(metadata, "ai_processed", PyBool(FALSE))),
      AI_Confidence |-> clean_float(Get(metadata, "ai_confidence", Num(0))),
      OCR_Method |-> Get(metadata, "ocr_method", ""),
      LLM_Used |-> Get(metadata, "llm_used", ""),
      Time_Taken |-> clean_float(Get(metadata, "time_taken", Num(0))),
      Human_InvoiceNumber |-> Get(metadata, "human_invoice_number", ""),
      Human_InvoiceDate |-> Get(metadata, "human_invoice_date", ""),
      Human_CompanyName |-> Get(metadata, "human_company_name", ""),
      Human_TotalAmount |-> clean_float(Get(metadata, "human_total_amount", Num(0))),
      Human_Validated |-> bool(Get(metadata, "human_validated", PyBool(FALSE))),
      Human_Flagged |-> bool(Get(metadata, "human_flagged", PyBool(FALSE))),
      Human_Notes |-> Get(metadata, "human_notes", "") ]

\* Names of the three field groups of a tracked item.
AIFieldNames == {"AI_InvoiceNumber", "AI_CompanyName", "AI_InvoiceDate",
                 "AI_TotalAmount", "AI_Confidence", "AI_Processed"}
ProvenanceFieldNames == {"OCR_Method", "LLM_Used", "Time_Taken"}
HumanFieldNames == {"Human_InvoiceNumber", "Human_InvoiceDate", "Human_CompanyName",
                    "Human_TotalAmount", "Human_Validated", "Human_Flagged",
                    "Human_Notes"}

\* The list items of the store whose NodeID column equals s, in list order:
\* what the server returns for $filter=fields/NodeID eq 's'.
RECURSIVE FilterFrom(_, _, _)
FilterFrom(items, s, i) ==
    IF i > Len(items) THEN <<>>
    ELSE (IF items[i].NodeID = s THEN <<items[i]>> ELSE <<>>) \o FilterFrom(items, s, i + 1)
FilterQuery(items, s) == FilterFrom(items, s, 1)

\* get_item_by_node_id, filtered path: the first item of the filtered reply,
\* or None (the empty sequence).
LookupFiltered(items, node_id) ==
    LET value == FilterQuery(items, Str(node_id))
    IN  IF value # <<>> THEN <<value[1]>> ELSE <<>>

\* get_item_by_node_id, fallback path: scan of get_all_items() for the first
\* item whose str(NodeID) equals str(node_id). The reply of the list request is
\* taken to carry the whole list in its "value" array.
RECURSIVE ScanFrom(_, _, _)
ScanFrom(items, s, i) ==
    IF i > Len(items) THEN <<>>
    ELSE IF items[i].NodeID = s THEN <<items[i]>>
    ELSE ScanFrom(items, s, i + 1)
RECURSIVE ScanBack(_, _, _)
ScanBack(items, s, i) ==
    IF i < 1 THEN <<>>
    ELSE IF items[i].NodeID = s THEN <<items[i]>>
    ELSE ScanBack(items, s, i - 1)
scan_returns_last_match(items, node_id) == ScanBack(items, Str(node_id), Len(items))
LookupScan(items, node_id) == ScanFrom(items, Str(node_id), 1)

\* How one lookup goes: the filtered query answers; it is rejected (400 or any
\* error) and the full scan answers; or both fail and the error propagates.
LookupModes == {"filter", "fallback", "unavailable"}

get_item_by_node_id(items, node_id, mode) ==
    IF mode = "filter" THEN LookupFiltered(items, node_id)
    ELSE LookupScan(items, node_id)

\* POST .../items with {"fields": fields}: the server appends a new list item
\* with a fresh id.
PostItem(items, flds) == Append(items, flds @@ [id |-> Len(items) + 1])

\* PATCH .../items/{item_id}/fields: a partial update of the named columns of
\* the item with that id.
patch_keeps_stored_flags(items, item_id, flds) ==
    [i \in 1..Len(items) |->
        IF items[i].id = item_id
        THEN [f \in DOMAIN items[i] |->
                 IF f \in DOMAIN flds /\ f \notin {"AI_Processed", "Human_Validated",
                                                   "Human_Flagged"}
                 THEN flds[f] ELSE items[i][f]]
        ELSE items[i]]
PatchItem(items, item_id, flds) ==
    [i \in 1..Len(items) |->
        IF items[i].id = item_id
        THEN [f \in DOMAIN items[i] |->
                 IF f \in DOMAIN flds THEN flds[f] ELSE items[i][f]]
        ELSE items[i]]

\* The write of create_or_update_item: update when the lookup found an item,
\* create otherwise.
write_always_creates(items, existing_item, flds) == PostItem(items, flds)
StoreWrite(items, existing_item, flds) ==
    IF existing_item # <<>>
    THEN PatchItem(items, existing_item[1].id, flds)
    ELSE PostItem(items, flds)

\* How one write goes: accepted, retries exhausted (RetryError), or another
\* HTTP error; the last two raise and leave the store as it was.
WriteModes == {"ok", "retry_exhausted", "http_error"}


\* ------------------------------------------------------------------ state
VARIABLES
    store,        \* the SharePoint list: the sequence of its items
    call,         \* per task: its create_or_update_item call in progress
    sync,         \* per sync task: sync_gcdocs_nodes_to_sharepoint_minimal
    val,          \* the save_validation request handler
    pipe,         \* the batch run: process_with_ai.generate
    state,        \* ProcessingStateManager.state of the global instance
    state_file,   \* the persisted state file
    ocr_results,  \* the OcrResult handles returned by perform_ocr
    bg,           \* per handle: its background OCR worker thread
    ext,          \* the extraction engine applied to drawn inputs
    waiter,       \* per handle: a caller inside wait_for_background_ocr
    ocr_call,     \* perform_ocr applied to drawn inputs
    auth,         \* the tracker's credential and its client call in progress
    client,       \* the store client applied to drawn store contents
    sess,         \* the session instances sharing the state file, and call counts
    req           \* the request threads of the session routes: cancel and GET

vars == <<store, call, sync, val, pipe, state, state_file, ocr_results, bg, ext, waiter,
          ocr_call, auth, client, sess, req>>

Syncs == {"sync1", "sync2"}
Tasks == Syncs \cup {"val", "pipe"}

FilenameOf(n) == <<"invoice", n, ".pdf">>
GCDocsURLOf(n) == <<"https://gcdocs.gc.ca/infc/llisapi.dll/app/nodes/", n>>

IdleCall == [pc |-> "idle", node_id |-> 0, flds |-> <<>>, existing |-> <<>>, error |-> ""]

\* A task calls create_or_update_item(node_id, filename, gcdocs_url, metadata):
\* the fields are built from the arguments; the lookup and the write follow.
PendingCall(node_id, filename, gcdocs_url, metadata) ==
    [pc |-> "pending", node_id |-> node_id,
     flds |-> fields(node_id, filename, gcdocs_url, metadata),
     existing |-> <<>>, error |-> ""]

\* No other task is between the lookup and the write of its own call.
NoCallInFlight(t) == \A u \in Tasks \ {t} : call[u].pc # "write"

\* How the credential check at the start of the call goes: the token is valid
\* or is renewed, or the re-authentication fails and get_token raises.
CredentialChecks == {"valid", "reauth_failed"}

\* create_or_update_item, first half: _ensure_valid_token(), then
\* existing_item = get_item_by_node_id(node_id). A failed re-authentication and
\* a lookup whose fallback also fails raise out of the call.
CallLookup(t, serial) ==
    /\ call[t].pc = "pending"
    /\ serial => NoCallInFlight(t)
    /\ \E check \in CredentialChecks, mode \in LookupModes :
         call' = [call EXCEPT ![t] =
                    IF check = "reauth_failed"
                    THEN [@ EXCEPT !.pc = "raised", !.error = "auth"]
                    ELSE IF mode = "unavailable"
                    THEN [@ EXCEPT !.pc = "raised", !.error = "lookup"]
                    ELSE [@ EXCEPT !.pc = "write",
                                   !.existing =
                                      get_item_by_node_id(store, call[t].node_id, mode)]]
    /\ UNCHANGED <<store, sync, val, pipe, state, state_file, ocr_results, bg, ext, waiter, ocr_call,
                   auth, client, sess, req>>

\* create_or_update_item, second half: PATCH the item found, or POST a new one;
\* RetryError and every other exception are re-raised.
CallWrite(t) ==
    /\ call[t].pc = "write"
    /\ \E mode \in WriteModes :
         IF mode = "ok"
         THEN /\ store' = StoreWrite(store, call[t].existing, call[t].flds)
              /\ call' = [call EXCEPT ![t].pc = "returned"]
         ELSE /\ store' = store
              /\ call' = [call EXCEPT ![t].pc = "raised", ![t].error = mode]
    /\ UNCHANGED <<sync, val, pipe, state, state_file, ocr_results, bg, ext, waiter, ocr_call,
                   auth, client, sess, req>>

\* ------------------------------------------------ GCDocs sync to SharePoint
DEFAULT_METADATA ==
    [ ai_invoice_number |-> "", ai_invoice_date |-> "", ai_company_name |-> "",
      ai_total_amount |-> Num(0), ai_processed |-> PyBool(FALSE), ai_confidence |-> Num(0),
      human_invoice_number |-> "", human_invoice_date |-> "",
      human_company_name |-> "", human_total_amount |-> Num(0),
      human_validated |-> PyBool(FALSE), human_flagged |-> PyBool(FALSE), human_notes |-> "" ]

IdleSync == [pc |-> "idle", i |-> 0]

\* The loop moves to the next node, or ends after the last one.
SyncAdvance(sy) ==
    IF sy.i < NumDocs THEN [pc |-> "check", i |-> sy.i + 1] ELSE [pc |-> "done", i |-> sy.i]

\* list_nodes(folder_id) has answered with every document of the folder.
SyncStart(s) ==
    /\ sync[s].pc = "idle"
    /\ sync' = [sync EXCEPT ![s] = [pc |-> "check", i |-> 1]]
    /\ UNCHANGED <<store, call, val, pipe, state, state_file, ocr_results, bg, ext, waiter, ocr_call,
                   auth, client, sess, req>>

\* One node: skip it when the store already has it, else create it with the
\* default metadata; an exception counts an error and the loop goes on.
SyncCheck(s) ==
    /\ sync[s].pc = "check"
    /\ \E mode \in LookupModes :
         LET node_id == sync[s].i
             existing == get_item_by_node_id(store, node_id, mode)
         IN  IF mode = "unavailable" \/ existing # <<>>
             THEN /\ sync' = [sync EXCEPT ![s] = SyncAdvance(@)]
                  /\ call' = call
             ELSE /\ sync' = [sync EXCEPT ![s].pc = "upsert"]
                  /\ call' = [call EXCEPT ![s] =
                                PendingCall(node_id, FilenameOf(node_id),
                                            GCDocsURLOf(node_id), DEFAULT_METADATA)]
    /\ UNCHANGED <<store, val, pipe, state, state_file, ocr_results, bg, ext, waiter, ocr_call,
                   auth, client, sess, req>>

\* create_or_update_item has returned or raised: on to the next node.
SyncNext(s) ==
    /\ sync[s].pc = "upsert"
    /\ call[s].pc \in {"returned", "raised"}
    /\ sync' = [sync EXCEPT ![s] = SyncAdvance(@)]
    /\ call' = [call EXCEPT ![s] = IdleCall]
    /\ UNCHANGED <<store, val, pipe, state, state_file, ocr_results, bg, ext, waiter, ocr_call,
                   auth, client, sess, req>>

\* ---------------------------------------------------------- save_validation
\* float(x) of a request value: a ValueError or TypeError for text or null.
FloatRaises(raw) == raw.k = "text"

\* The request bodies drawn: node_id 0 stands for a missing node_id; the amount
\* is a number, NaN, or text that float() rejects.
ValidationRequests ==
    { [node_id |-> n, invoice_number |-> "INV-7", company_name |-> "ACME",
       invoice_date |-> "2025-01-31", total_amount |-> v[1], notes |-> "checked",
       flagged |-> v[2]] :
      n \in 0..NumDocs, v \in {<<Num(125), FALSE>>, <<NaN, TRUE>>, <<Text, FALSE>>} }

IdleVal == [pc |-> "idle", req |-> <<>>, existing |-> <<>>]

\* The metadata save_validation builds: the AI and provenance fields read from
\* the existing item, the human fields from the request.
validation_metadata_drops_ai(existing, data) ==
    [ human_invoice_number |-> data.invoice_number,
      human_company_name |-> data.company_name,
      human_invoice_date |-> data.invoice_date,
      human_total_amount |-> data.total_amount,
      human_notes |-> data.notes,
      human_validated |-> PyBool(TRUE),
      human_flagged |-> PyBool(data.flagged) ]
validation_metadata(existing, data) ==
    [ ai_invoice_number |-> existing.AI_InvoiceNumber,
      ai_company_name |-> existing.AI_CompanyName,
      ai_invoice_date |-> existing.AI_InvoiceDate,
      ai_total_amount |-> Num(existing.AI_TotalAmount),
      ai_confidence |-> Num(existing.AI_Confidence),
      ai_processed |-> PyBool(existing.AI_Processed),
      ocr_method |-> existing.OCR_Method,
      llm_used |-> existing.LLM_Used,
      time_taken |-> Num(existing.Time_Taken),
      human_invoice_number |-> data.invoice_number,
      human_company_name |-> data.company_name,
      human_invoice_date |-> data.invoice_date,
      human_total_amount |-> data.total_amount,
      human_notes |-> data.notes,
      human_validated |-> PyBool(TRUE),
      human_flagged |-> PyBool(data.flagged) ]

\* The handler up to its create_or_update_item call. It answers at once, with
\* nothing written, 400 without a node_id, 500 when the lookup or float() raises
\* and 404 when the item is not found.
SaveValidation ==
    /\ val.pc = "idle"
    /\ \E data \in ValidationRequests, mode \in LookupModes :
         LET existing == IF data.node_id = 0 \/ mode = "unavailable" THEN <<>>
                         ELSE get_item_by_node_id(store, data.node_id, mode)
         IN  IF existing = <<>> \/ FloatRaises(data.total_amount)
             THEN /\ val' = IdleVal
                  /\ call' = call
             ELSE /\ val' = [pc |-> "upsert", req |-> data, existing |-> existing]
                  /\ call' = [call EXCEPT !["val"] =
                                PendingCall(data.node_id, existing[1].Filename,
                                            existing[1].GCDocsURL,
                                            validation_metadata(existing[1], data))]
    /\ UNCHANGED <<store, sync, pipe, state, state_file, ocr_results, bg, ext, waiter, ocr_call,
                   auth, client, sess, req>>

\* create_or_update_item has returned (success) or raised (500).
SaveValidationReturn ==
    /\ val.pc = "upsert"
    /\ call["val"].pc \in {"returned", "raised"}
    /\ val' = IdleVal
    /\ call' = [call EXCEPT !["val"] = IdleCall]
    /\ UNCHANGED <<store, sync, pipe, state, state_file, ocr_results, bg, ext, waiter, ocr_call,
                   auth, client, sess, req>>

\* ------------------------------------------------------------ OCR (ocr.py)
\* Live OcrResult handles at one time.
MaxHandles == 1
HandleIds == 1..MaxHandles

\* A PDF as perform_ocr meets it: whether the file exists and opens, its page
\* count, on which pages the recognition engine raises, whether native text
\* extraction raises, and whether its pages carry embedded text ("ample": more
\* characters than any threshold) or none (a scan).
Pdfs ==
    [ exists : BOOLEAN, opens : BOOLEAN, page_count : 1..MaxDocPages,
      recog_fails : SUBSET (1..MaxDocPages), native_fails : BOOLEAN,
      native_text : {"none", "ample"} ]

Min(a, b) == IF a < b THEN a ELSE b

\* The max_pages arguments drawn for perform_ocr: any integer from 0 up.
MaxPagesArgs == 0..MaxDocPages

\* The page_data of _process_single_page for 1-based page p.
PageData(p) == [page_num |-> p, text |-> <<"recognized", p>>]
\* The page_data of the native (PyMuPDF) fallback for 1-based page p.
NativePageData(p) == [page_num |-> p, text |-> <<"native", p>>]

\* full_text is kept as the sequence of its page sections: section k stands for
\* "--- PAGE n ---\n<text>", joined to the one before it by a blank line.
Section(page_data) == [page |-> page_data.page_num, text |-> page_data.text]

\* The ordered concatenation of the sections of the pages present.
SectionsOf(pages) == [k \in 1..Len(pages) |-> Section(pages[k])]

\* Characters of "--- PAGE n ---" (n a single digit), what strip() leaves of an
\* empty page's section.
PageHeaderLen == 14
\* len(full_text.strip()), counted without the pages' own text: 0 for the empty
\* string, and at least one page header otherwise.
StrippedLen(full_text) ==
    IF full_text = <<>> THEN 0 ELSE Len(full_text) * PageHeaderLen

\* What perform_ocr returns on the fast path: page 1 recognized, the rest left
\* to the background thread when there is more than one page to process.
FastPathResult(pages_to_process) ==
    [ method |-> "paddleocr_optimized",
      pages |-> <<PageData(1)>>,
      total_pages |-> pages_to_process,
      full_text |-> <<Section(PageData(1))>>,
      background_complete |-> ~(pages_to_process > 1),
      background_error |-> "" ]

\* What perform_ocr returns when page 1's recognition raised: every page up to
\* pages_to_process read natively, synchronously.
FallbackResult(pages_to_process) ==
    LET pages == [k \in 1..pages_to_process |-> NativePageData(k)]
    IN  [ method |-> "pymupdf_fallback",
          pages |-> pages,
          total_pages |-> pages_to_process,
          full_text |-> SectionsOf(pages),
          background_complete |-> TRUE,
          background_error |-> "" ]

\* What perform_ocr returns when both methods failed (no total_pages key: the
\* caller's .get('total_pages', 1) reads 1).
ErrorResult ==
    [ method |-> "error", pages |-> <<>>, total_pages |-> 1, full_text |-> <<>>,
      background_complete |-> TRUE, background_error |-> "" ]

\* perform_ocr raises (FileNotFoundError, or fitz.open failing) instead of
\* returning.
PerformOcrRaises(pdf) == ~pdf.exists \/ ~pdf.opens

\* The dict as perform_ocr itself fills it: on the fast path what it holds when
\* the worker thread is started (or, with no worker, at the return), else the
\* dict of the fallback or of the failure.
OwnResult(pdf, max_pages) ==
    LET pages_to_process == Min(pdf.page_count, max_pages)
    IN  IF 1 \notin pdf.recog_fails THEN FastPathResult(pages_to_process)
        ELSE IF ~pdf.native_fails \/ pages_to_process < 1
        THEN FallbackResult(pages_to_process)
        ELSE ErrorResult

NoThread == [pc |-> "none", page_num |-> 0, end_page |-> 0, recog_fails |-> {}]

\* The thread perform_ocr starts: _background_ocr_worker(doc, ocr, 1,
\* pages_to_process, ...), or none. Of the document it keeps the pages of its
\* range on which recognition raises.
SpawnedThread(pdf, max_pages) ==
    LET pages_to_process == Min(pdf.page_count, max_pages)
    IN  IF 1 \notin pdf.recog_fails /\ pages_to_process > 1
        THEN [pc |-> "page", page_num |-> 1, end_page |-> pages_to_process,
              recog_fails |-> pdf.recog_fails \cap (2..pages_to_process)]
        ELSE NoThread

\* One step of _background_ocr_worker on the dict it shares with the caller,
\* for s = [result, thread]: _process_single_page of the next page (the
\* recognition engine is called, and returns or raises), the append to pages,
\* the append to full_text, the except clause storing background_error after
\* the engine raised, or, after the last page, background_complete = True. An
\* ended worker does nothing.
WorkerStep(s) ==
    LET th == s.thread
        p == th.page_num + 1
    IN  IF th.pc = "page" /\ th.page_num < th.end_page
        THEN IF p \in th.recog_fails
             THEN [result |-> s.result, thread |-> [th EXCEPT !.pc = "except"]]
             ELSE [result |-> s.result, thread |-> [th EXCEPT !.pc = "append"]]
        ELSE IF th.pc = "except"
        THEN [result |-> [s.result EXCEPT !.background_error = "recognition"],
              thread |-> [th EXCEPT !.pc = "failed"]]
        ELSE IF th.pc = "append"
        THEN [result |-> [s.result EXCEPT !.pages = Append(@, PageData(p))],
              thread |-> [th EXCEPT !.pc = "text"]]
        ELSE IF th.pc = "text"
        THEN [result |-> [s.result EXCEPT !.full_text = Append(@, Section(PageData(p)))],
              thread |-> [th EXCEPT !.pc = "page", !.page_num = p]]
        ELSE IF th.pc = "page"
        THEN [result |-> [s.result EXCEPT !.background_complete = TRUE],
              thread |-> [th EXCEPT !.pc = "done"]]
        ELSE s

\* The worker after k steps.
RECURSIVE WorkerRun(_, _)
WorkerRun(s, k) == IF k = 0 THEN s ELSE WorkerRun(WorkerStep(s), k - 1)

\* Steps after which every worker has ended: at most three for each page, one
\* more to set background_complete or background_error.
MaxWorkerSteps == 3 * MaxDocPages + 1

\* perform_ocr(pdf_path, max_pages): the dict and the worker as they can be
\* when perform_ocr executes its return. The thread is started before the
\* return and writes to the dict returned, with no lock and no join: by the
\* return it has taken any number of its steps, from none to all of them.
perform_ocr(pdf, max_pages) ==
    { WorkerRun([result |-> OwnResult(pdf, max_pages),
                 thread |-> SpawnedThread(pdf, max_pages)], k) :
          k \in 0..MaxWorkerSteps }

\* Calls of the recognition engine (ocr.predict) made so far for a document
\* that opened: the one perform_ocr makes for page 1 and one for every page
\* the worker has handed to _process_single_page, the call that raised
\* included.
EngineCalls(thread) ==
    1 + (IF thread.pc = "none" THEN 0
         ELSE thread.page_num - 1 +
              (IF thread.pc \in {"append", "text", "except", "failed"} THEN 1 ELSE 0))

FreeHandle == CHOOSE h \in HandleIds : h \notin DOMAIN ocr_results /\
                  \A g \in HandleIds : g \notin DOMAIN ocr_results => h <= g

\* ocr_results with handle h bound to value r.
WithHandle(h, r) == [g \in DOMAIN ocr_results \cup {h} |-> IF g = h THEN r ELSE ocr_results[g]]
WithThread(h, th) == [g \in DOMAIN bg \cup {h} |-> IF g = h THEN th ELSE bg[g]]
WithoutHandle(f, h) == [g \in DOMAIN f \ {h} |-> f[g]]

\* The worker of handle h takes its step.
BgStep(h) ==
    LET s == WorkerStep([result |-> ocr_results[h], thread |-> bg[h]])
    IN  /\ ocr_results' = [ocr_results EXCEPT ![h] = s.result]
        /\ bg' = [bg EXCEPT ![h] = s.thread]
        /\ UNCHANGED <<store, call, sync, val, pipe, state, state_file, ext, waiter,
                       ocr_call, auth, client, sess, req>>

\* Worker loop, one page: _process_single_page, in which the recognition
\* engine is called.
BgProcessPage(h) ==
    /\ h \in DOMAIN bg
    /\ bg[h].pc = "page"
    /\ bg[h].page_num < bg[h].end_page
    /\ BgStep(h)

\* The except clause after the engine raised: background_error = str(e), and
\* the worker ends.
BgError_clears_pages(h) ==
    /\ h \in DOMAIN bg
    /\ bg[h].pc = "except"
    /\ ocr_results' = [ocr_results EXCEPT ![h].background_error = "recognition",
                                          ![h].pages = <<>>,
                                          ![h].full_text = <<>>]
    /\ bg' = [bg EXCEPT ![h].pc = "failed"]
    /\ UNCHANGED <<store, call, sync, val, pipe, state, state_file, ext, waiter, ocr_call,
                   auth, client, sess, req>>
BgError(h) ==
    /\ h \in DOMAIN bg
    /\ bg[h].pc = "except"
    /\ BgStep(h)

\* Worker loop, same page: results_container["pages"].append(page_data).
BgAppendPage(h) ==
    /\ h \in DOMAIN bg
    /\ bg[h].pc = "append"
    /\ BgStep(h)

\* Worker loop, same page: full_text += the page's section.
BgAppendText(h) ==
    /\ h \in DOMAIN bg
    /\ bg[h].pc = "text"
    /\ BgStep(h)

\* After the loop: background_complete = True.
BgComplete(h) ==
    /\ h \in DOMAIN bg
    /\ bg[h].pc = "page"
    /\ bg[h].page_num >= bg[h].end_page
    /\ BgStep(h)

\* A caller of perform_ocr outside the batch: the call returns a new handle and
\* may have started its worker, which has come any distance by the return.
OcrCall ==
    /\ DOMAIN ocr_results # HandleIds
    /\ \E pdf \in Pdfs, max_pages \in MaxPagesArgs :
         /\ ~PerformOcrRaises(pdf)
         /\ \E o \in perform_ocr(pdf, max_pages) :
              /\ ocr_results' = WithHandle(FreeHandle, o.result)
              /\ bg' = WithThread(FreeHandle, o.thread)
    /\ UNCHANGED <<store, call, sync, val, pipe, state, state_file, ext, waiter, ocr_call,
                   auth, client, sess, req>>

\* The timeout of a wait, in polling intervals of 0.1 s.
WaitTimeout == 2

\* One pass of wait_for_background_ocr's loop, `elapsed` intervals after its
\* start: leave the loop when background_complete is set, break when the
\* timeout has passed, else sleep one interval.
wait_returns_at_once(complete, elapsed, timeout) == "return"
wait_never_times_out(complete, elapsed, timeout) ==
    IF complete THEN "return" ELSE "sleep"
wait_poll(complete, elapsed, timeout) ==
    IF complete THEN "return"
    ELSE IF elapsed > timeout THEN "timeout"
    ELSE "sleep"

NewWait == [pc |-> "polling", elapsed |-> 0, timed_out |-> FALSE, text |-> <<>>]

\* A caller outside the batch calls wait_for_background_ocr(ocr_results,
\* timeout) on a handle it holds.
WaitCall(h) ==
    /\ h \in DOMAIN ocr_results
    /\ h \notin DOMAIN waiter
    /\ pipe.ocr # h
    /\ waiter' = [g \in DOMAIN waiter \cup {h} |-> IF g = h THEN NewWait ELSE waiter[g]]
    /\ UNCHANGED <<store, call, sync, val, pipe, state, state_file, ocr_results, bg, ext, ocr_call,
                   auth, client, sess, req>>

\* One pass of that caller's loop; on leaving it the call returns the handle,
\* and the caller goes on with the text the handle holds then.
WaitPoll(h) ==
    /\ h \in DOMAIN waiter
    /\ waiter[h].pc = "polling"
    /\ LET r == wait_poll(ocr_results[h].background_complete, waiter[h].elapsed,
                          WaitTimeout)
       IN  waiter' = [waiter EXCEPT ![h] =
                        IF r = "sleep"
                        THEN [@ EXCEPT !.elapsed = Min(@ + 1, WaitTimeout + 1)]
                        ELSE [@ EXCEPT !.pc = "returned",
                                       !.timed_out = (r = "timeout"),
                                       !.text = ocr_results[h].full_text]]
    /\ UNCHANGED <<store, call, sync, val, pipe, state, state_file, ocr_results, bg, ext, ocr_call,
                   auth, client, sess, req>>

\* The caller lets go of a handle whose worker has ended (or never existed) and
\* on which no wait is in progress.
OcrRelease(h) ==
    /\ h \in DOMAIN ocr_results
    /\ pipe.ocr # h
    /\ bg[h].pc \in {"none", "done", "failed"}
    /\ h \in DOMAIN waiter => waiter[h].pc = "returned"
    /\ ocr_results' = WithoutHandle(ocr_results, h)
    /\ bg' = WithoutHandle(bg, h)
    /\ waiter' = WithoutHandle(waiter, h)
    /\ UNCHANGED <<store, call, sync, val, pipe, state, state_file, ext, ocr_call, auth, client, sess, req>>

\* ------------------------------------------- extraction (extraction.py)
\* Below this many characters the text is not sent to the model.
MinTextLen == 10
\* The model's confidence score of a parsed record, in hundredths.
ConfidencePlain == 85
\* The replacement fields of AIConfig.INVOICE_EXTRACTION_PROMPT, and the keyword
\* arguments extract_invoice_data passes to its format().
PromptPlaceholders == {"header_text", "footer_text"}
PromptArguments == {"header_slice", "footer_slice"}

\* One answer of the completion capability: the call throws; the output is
\* empty or mostly dashes (unusable); or it is usable and, once cleaned and
\* repaired, parses to a JSON object, parses to JSON that is no object, or does
\* not parse (JSONDecodeError).
LLMReplies == {"throw", "empty", "dashes", "object", "nonobject", "invalid"}
\* The answers to the first prompt and to the simplified retry prompt.
LLMBehaviours == [1..2 -> LLMReplies]

ModelName == "mistral-7b.gguf"

\* The zeroed record returned on a failure the engine handles.
FailureRecord(ocr_method, error) ==
    [ invoice_number |-> "", company_name |-> "", invoice_date |-> "",
      total_amount |-> Num(0), confidence |-> Num(0), model_used |-> ModelName,
      ocr_method |-> ocr_method, error |-> error ]

\* The value of total_amount in the JSON object the completion parses to: a
\* number, a currency string ("$1,234.56"), the texts "nan" and "inf", other
\* words ("N/A"), a number with a unit ("12 USD"), "", null, or no such key.
RawAmounts ==
    { [k |-> "number", v |-> 1234], [k |-> "currency", v |-> 1234],
      [k |-> "nan_text", v |-> 0], [k |-> "inf_text", v |-> 0],
      [k |-> "words", v |-> 0], [k |-> "with_unit", v |-> 12],
      [k |-> "empty", v |-> 0], [k |-> "null", v |-> 0], [k |-> "missing", v |-> 0] }

\* The value of invoice_date in that object: ISO, other forms, free text, "",
\* null.
\* JsonNull stands for JSON null (None once parsed).
JsonNull == "<null>"
RawDates == {"2025-11-13", "13/11/2025", "November 13, 2025", "soon", "", JsonNull}

\* The JSON objects a completion parses to, by their amount and date.
ParsedObjects == [total_amount : RawAmounts, invoice_date : RawDates]

\* The clean-up of the amount: str(data.get('total_amount', 0)) without "," and
\* "$", stripped, through float(); ValueError and TypeError give 0.0. float()
\* accepts "nan" and "inf".
clean_amount(raw) ==
    IF raw.k \in {"number", "currency"} THEN Num(raw.v)
    ELSE IF raw.k = "nan_text" THEN NaN
    ELSE IF raw.k = "inf_text" THEN Inf
    ELSE Num(0)

\* The record of a completion that parsed to an object: the object itself with
\* its amount cleaned and the metadata added (no error key); the other fields
\* are the model's, as they came.
ParsedRecord(ocr_method, obj) ==
    [ invoice_number |-> "INV-2025-1234", company_name |-> "ACME Corporation",
      invoice_date |-> obj.invoice_date, total_amount |-> clean_amount(obj.total_amount),
      confidence |-> Num(ConfidencePlain), model_used |-> ModelName,
      ocr_method |-> ocr_method ]

Returned(data, llm_calls) == [raised |-> FALSE, exc |-> "", data |-> data, llm_calls |-> llm_calls]
Raised(exc, llm_calls) == [raised |-> TRUE, exc |-> exc, data |-> <<>>, llm_calls |-> llm_calls]

\* The output is unusable: empty, too short, or more than half dashes.
Unusable(reply) == reply \in {"empty", "dashes"}

\* Fence stripping, brace slicing, repair_json, json.loads and the field
\* clean-up; only json.JSONDecodeError is caught.
ParseCompletion(ocr_method, reply, obj, llm_calls) ==
    IF reply = "object" THEN Returned(ParsedRecord(ocr_method, obj), llm_calls)
    ELSE IF reply = "nonobject" THEN Raised("AttributeError", llm_calls)
    ELSE Returned(FailureRecord(ocr_method, "Failed to parse"), llm_calls)

\* The model call, the retry with the simplified prompt when the first output
\* is unusable, then the parse.
CompleteAndParse(ocr_method, llm, obj) ==
    IF llm[1] = "throw" THEN Raised("CompletionError", 1)
    ELSE IF Unusable(llm[1])
    THEN IF llm[2] = "throw" THEN Raised("CompletionError", 2)
         ELSE ParseCompletion(ocr_method, llm[2], obj, 2)
    ELSE ParseCompletion(ocr_method, llm[1], obj, 1)

\* extract_invoice_data(ocr_result) for an OcrResult dict: the no-text record
\* without a model call; else the prompt is formatted (str.format raises
\* KeyError for a replacement field it is given no argument for), the model is
\* called and its output parsed.
extract_with_prompt(placeholders, ocr_result, llm, obj) ==
    IF StrippedLen(ocr_result.full_text) < MinTextLen
    THEN Returned(FailureRecord(ocr_result.method, "No text content in OCR result"), 0)
    ELSE IF ~(placeholders \subseteq PromptArguments)
    THEN Raised("KeyError", 0)
    ELSE CompleteAndParse(ocr_result.method, llm, obj)

\* The same with AIConfig.INVOICE_EXTRACTION_PROMPT as shipped.
extract_invoice_data(ocr_result, llm, obj) ==
    extract_with_prompt(PromptPlaceholders, ocr_result, llm, obj)

\* --------------------------------------- processing session state (api.py)
\* Most log lines kept.
LogCap == 1000

DefaultState ==
    [ is_processing |-> FALSE, current_count |-> 0, total_count |-> 0,
      model |-> "", console_logs |-> <<>>, started_at |-> "" ]

CancelMessage == "Processing cancelled by user"

\* The last n entries of a list: logs[-n:].
LastN(logs, n) == IF Len(logs) <= n THEN logs ELSE SubSeq(logs, Len(logs) - n + 1, Len(logs))

\* add_log: append the stamped entry, keep the last LogCap.
add_log_keeps_first(st, message) ==
    LET appended == Append(st.console_logs, [message |-> message])
    IN  [st EXCEPT !.console_logs =
            IF Len(appended) > LogCap THEN SubSeq(appended, 1, LogCap) ELSE appended]
add_log(st, message) ==
    LET appended == Append(st.console_logs, [message |-> message])
    IN  [st EXCEPT !.console_logs =
            IF Len(appended) > LogCap THEN LastN(appended, LogCap) ELSE appended]

\* stop_processing
stop_processing(st) == [st EXCEPT !.is_processing = FALSE]

\* datetime.now().isoformat(): with the microseconds, or without them when
\* the call falls on a whole second.
Timestamps == {"2026-10-31T16:00:00.250000", "2026-10-31T16:00:00"}

\* start_processing(total_count, model), called at time `now`
start_processing(st, total_count, model, now) ==
    [st EXCEPT !.is_processing = TRUE, !.current_count = 0, !.total_count = total_count,
               !.model = model, !.console_logs = <<>>, !.started_at = now]

\* update_progress(current_count)
update_progress(st, current_count) == [st EXCEPT !.current_count = current_count]

\* clear_logs
clear_logs(st) == [st EXCEPT !.console_logs = <<>>]

\* reset
reset(st) == DefaultState

\* The state file as it lies on disk: absent; empty (opened for writing and
\* nothing written yet); the complete dump of `value`; or the dump of `value`
\* followed by `extra` bytes left over of a longer content written before it.
NoFile == [kind |-> "absent", value |-> DefaultState, extra |-> 0]
EmptyFile == [kind |-> "empty", value |-> DefaultState, extra |-> 0]
FileOf(st) == [kind |-> "json", value |-> st, extra |-> 0]

Digits(n) == IF n < 10 THEN 1 ELSE IF n < 100 THEN 2 ELSE IF n < 1000 THEN 3 ELSE 4

\* Characters of the entries k.. of console_logs in json.dump(..., indent=2):
\* a newline, four spaces and the quoted entry "[HH:MM:SS] <n>" each (the log
\* lines of the instances are numbered), and the commas between them.
RECURSIVE EntriesLen(_, _)
EntriesLen(logs, k) ==
    IF k > Len(logs) THEN 0
    ELSE 18 + Digits(logs[k].message) + (IF k < Len(logs) THEN 1 ELSE 0)
         + EntriesLen(logs, k + 1)

\* len(json.dumps(state, indent=2)): 131 characters for the default state, and
\* what each field adds when it differs from its default.
JsonLen(st) ==
    131 - (IF st.is_processing THEN 1 ELSE 0)
        + (Digits(st.current_count) - 1) + (Digits(st.total_count) - 1)
        + (IF st.model = "" THEN 0 ELSE Len(st.model) - 2)
        + (IF st.started_at = "" THEN 0 ELSE Len(st.started_at) - 2)
        + (IF st.console_logs = <<>> THEN 0 ELSE 3 + EntriesLen(st.console_logs, 1))

FileLen(file) ==
    IF file.kind \in {"absent", "empty"} THEN 0 ELSE JsonLen(file.value) + file.extra

\* _save_state, second half: json.dump has written the state into the buffer
\* and the with block closes the file: the bytes go to the file from offset 0.
\* The file was truncated when this writer opened it, not now: what another
\* writer has put there since stays behind the new bytes when it is longer.
Flush(file, st) ==
    IF file.kind \in {"absent", "empty"} THEN FileOf(st)
    ELSE IF JsonLen(st) >= FileLen(file) THEN FileOf(st)
    ELSE [kind |-> "garbage", value |-> st, extra |-> FileLen(file) - JsonLen(st)]

\* _save_state with no other writer in between: open(state_file, 'w'), then
\* json.dump(self.state, f, indent=2) and the close.
_save_state(st) == Flush(EmptyFile, st)

\* _load_state: the content of the file; the default state when the file is
\* missing or json.load raises (an empty file, or data after the JSON value).
_load_state(file) == IF file.kind = "json" THEN file.value ELSE DefaultState

\* ----------------------- the session routes, as request threads (api.py)
\* No request of the two routes in progress. snap is the dict json.dump is
\* writing, loaded the dict _load_state returned; cancels counts the cancel
\* requests answered.
IdleReq ==
    [ cancel |-> [call |-> "none", save |-> "none", snap |-> DefaultState],
      get |-> [pc |-> "idle", loaded |-> DefaultState],
      cancels |-> 0 ]

\* POST /api/cancel_processing, first statement: stop_processing() clears the
\* flag in self.state and goes on to _save_state.
CancelStop ==
    /\ req.cancel.call = "none"
    /\ req.cancels < MaxCancels
    /\ state' = stop_processing(state)
    /\ req' = [req EXCEPT !.cancel.call = "stop_processing", !.cancel.save = "open"]
    /\ UNCHANGED <<store, call, sync, val, pipe, state_file, ocr_results, bg, ext, waiter,
                   ocr_call, auth, client, sess>>

\* _save_state of the cancel request: open(state_file, 'w') empties the file.
SaveOpen ==
    /\ req.cancel.save = "open"
    /\ state_file' = EmptyFile
    /\ req' = [req EXCEPT !.cancel.save = "dump"]
    /\ UNCHANGED <<store, call, sync, val, pipe, state, ocr_results, bg, ext, waiter,
                   ocr_call, auth, client, sess>>

\* json.dump(self.state, f, indent=2): the dict self.state names at this moment
\* is the one written.
SaveDump ==
    /\ req.cancel.save = "dump"
    /\ req' = [req EXCEPT !.cancel.save = "close", !.cancel.snap = state]
    /\ UNCHANGED <<store, call, sync, val, pipe, state, state_file, ocr_results, bg, ext,
                   waiter, ocr_call, auth, client, sess>>

\* The with block ends: the file is closed and holds what was dumped.
SaveClose ==
    /\ req.cancel.save = "close"
    /\ state_file' = Flush(state_file, req.cancel.snap)
    /\ req' = [req EXCEPT !.cancel.save = "none"]
    /\ UNCHANGED <<store, call, sync, val, pipe, state, ocr_results, bg, ext, waiter,
                   ocr_call, auth, client, sess>>

\* Second statement: add_log(...) appends the entry to the console_logs of the
\* dict self.state names now, and goes on to _save_state.
CancelAddLog ==
    /\ req.cancel.call = "stop_processing"
    /\ req.cancel.save = "none"
    /\ state' = add_log(state, CancelMessage)
    /\ req' = [req EXCEPT !.cancel.call = "add_log", !.cancel.save = "open"]
    /\ UNCHANGED <<store, call, sync, val, pipe, state_file, ocr_results, bg, ext, waiter,
                   ocr_call, auth, client, sess>>

\* The handler answers {'status': 'cancelled'}.
CancelReturn ==
    /\ req.cancel.call = "add_log"
    /\ req.cancel.save = "none"
    /\ req' = [req EXCEPT !.cancel.call = "none", !.cancels = @ + 1]
    /\ UNCHANGED <<store, call, sync, val, pipe, state, state_file, ocr_results, bg, ext,
                   waiter, ocr_call, auth, client, sess>>

\* POST /api/cancel_processing: stop_processing(), then add_log(...); each saves
\* the state file.
cancel_processing ==
    \/ CancelStop
    \/ SaveOpen
    \/ SaveDump
    \/ SaveClose
    \/ CancelAddLog
    \/ CancelReturn

\* GET /api/processing_state, get_state: _load_state() reads the file.
GetLoad ==
    /\ req.get.pc = "idle"
    /\ req' = [req EXCEPT !.get.pc = "loaded", !.get.loaded = _load_state(state_file)]
    /\ UNCHANGED <<store, call, sync, val, pipe, state, state_file, ocr_results, bg, ext,
                   waiter, ocr_call, auth, client, sess>>

\* self.state = <what was loaded>; a copy of it is the answer.
GetReturn ==
    /\ req.get.pc = "loaded"
    /\ state' = req.get.loaded
    /\ req' = [req EXCEPT !.get.pc = "idle"]
    /\ UNCHANGED <<store, call, sync, val, pipe, state_file, ocr_results, bg, ext, waiter,
                   ocr_call, auth, client, sess>>

get_processing_state ==
    \/ GetLoad
    \/ GetReturn

\* ------------------------------------- session operations, one instance
\* Number of log lines added beyond LogCap since the logs were last emptied.
MaxOverflow == 2

\* The two ProcessingStateManager instances (two processes) on one state file.
Instances == {"A", "B"}

\* Both instances after __init__ with no state file yet: each holds the default
\* state. adds counts the add_log calls of the global instance since its logs
\* were last emptied; completed is the state the last completed save wrote;
\* done is the set of mutations completed; seen is the last get_state.
NewSessions ==
    [ adds |-> 0,
      mem |-> [i \in Instances |-> DefaultState],
      pc |-> [i \in Instances |-> "idle"],
      op |-> [i \in Instances |-> "none"],
      completed |-> DefaultState,
      done |-> {},
      overlapped |-> FALSE,
      seen |-> [by |-> "none", value |-> DefaultState, fresh |-> {DefaultState}] ]

\* The message of the next log line an instance adds: the lines are numbered.
NextLine(st) ==
    IF st.console_logs = <<>> THEN 1
    ELSE st.console_logs[Len(st.console_logs)].message + 1

\* processing_state.add_log(message); the state is saved before the return.
SessionAddLog ==
    /\ sess.adds < LogCap + MaxOverflow
    /\ state' = add_log(state, sess.adds + 1)
    /\ state_file' = _save_state(state')
    /\ sess' = [sess EXCEPT !.adds = @ + 1]
    /\ UNCHANGED <<store, call, sync, val, pipe, ocr_results, bg, ext, waiter, ocr_call,
                   auth, client, req>>

\* processing_state.start_processing(total_count, model)
SessionStart ==
    /\ \E now \in Timestamps : state' = start_processing(state, 1, ModelName, now)
    /\ state_file' = _save_state(state')
    /\ sess' = [sess EXCEPT !.adds = 0]
    /\ UNCHANGED <<store, call, sync, val, pipe, ocr_results, bg, ext, waiter, ocr_call,
                   auth, client, req>>

\* processing_state.stop_processing()
SessionStop ==
    /\ state' = stop_processing(state)
    /\ state_file' = _save_state(state')
    /\ UNCHANGED sess
    /\ UNCHANGED <<store, call, sync, val, pipe, ocr_results, bg, ext, waiter, ocr_call,
                   auth, client, req>>

\* processing_state.update_progress(current_count)
SessionProgress ==
    /\ state' = update_progress(state, 1)
    /\ state_file' = _save_state(state')
    /\ UNCHANGED sess
    /\ UNCHANGED <<store, call, sync, val, pipe, ocr_results, bg, ext, waiter, ocr_call,
                   auth, client, req>>

\* processing_state.clear_logs()
SessionClearLogs ==
    /\ state' = clear_logs(state)
    /\ state_file' = _save_state(state')
    /\ sess' = [sess EXCEPT !.adds = 0]
    /\ UNCHANGED <<store, call, sync, val, pipe, ocr_results, bg, ext, waiter, ocr_call,
                   auth, client, req>>

\* processing_state.reset()
SessionReset ==
    /\ state' = reset(state)
    /\ state_file' = _save_state(state')
    /\ sess' = [sess EXCEPT !.adds = 0]
    /\ UNCHANGED <<store, call, sync, val, pipe, ocr_results, bg, ext, waiter, ocr_call,
                   auth, client, req>>

\* --------------------------------- session operations, two instances
\* Most mutating calls completed by the two instances together.
MaxMutations == 3

\* The mutating calls the instances make.
SessionOps == {"progress", "log"}

apply_op(st, op) ==
    IF op = "progress" THEN update_progress(st, 1)
    ELSE add_log(st, NextLine(st))

\* Some instance has opened the state file for writing and has not closed it.
FileBeingWritten == \E i \in Instances : sess.pc[i] = "saving"

\* A mutating call, first half: self.state is changed and _save_state opens
\* the file for writing, which empties it.
MgrMutate(i) ==
    /\ sess.pc[i] = "idle"
    /\ Cardinality(sess.done) + Cardinality({j \in Instances : sess.pc[j] = "saving"})
          < MaxMutations
    /\ \E op \in SessionOps :
         sess' = [sess EXCEPT !.mem[i] = apply_op(@, op), !.pc[i] = "saving",
                              !.op[i] = op,
                              !.overlapped = @ \/ FileBeingWritten]
    /\ state_file' = EmptyFile
    /\ UNCHANGED <<store, call, sync, val, pipe, state, ocr_results, bg, ext, waiter,
                   ocr_call, auth, client, req>>

\* A mutating call, second half: json.dump has written self.state, the file is
\* closed and the call returns.
MgrSaved(i) ==
    /\ sess.pc[i] = "saving"
    /\ state_file' = Flush(state_file, sess.mem[i])
    /\ sess' = [sess EXCEPT !.pc[i] = "idle", !.completed = sess.mem[i],
                            !.done = @ \cup {<<i, sess.op[i], Cardinality(sess.done)>>}]
    /\ UNCHANGED <<store, call, sync, val, pipe, state, ocr_results, bg, ext, waiter,
                   ocr_call, auth, client, req>>

\* get_state: self.state = self._load_state(); a copy is returned.
MgrGetState(i) ==
    /\ sess.pc[i] = "idle"
    /\ LET loaded == _load_state(state_file)
       IN  sess' = [sess EXCEPT
                       !.mem[i] = loaded,
                       !.overlapped = @ \/ FileBeingWritten,
                       !.seen = [by |-> i, value |-> loaded,
                                 fresh |-> {sess.completed} \cup
                                           {sess.mem[j] : j \in {k \in Instances :
                                                                   sess.pc[k] = "saving"}}]]
    /\ UNCHANGED state_file
    /\ UNCHANGED <<store, call, sync, val, pipe, state, ocr_results, bg, ext, waiter,
                   ocr_call, auth, client, req>>

\* ----------------------------------- batch pipeline (process_with_ai.generate)
\* OCRConfig.MAX_OCR_PAGES
MAX_OCR_PAGES == 1
\* Largest wall-clock time of one document, in seconds, drawn for time_taken.
MaxElapsed == 1

IdlePipe ==
    [ pc |-> "idle", count |-> 0, unprocessed |-> <<>>, i |-> 0, ocr |-> 0,
      extracted |-> <<>>, waited |-> 0, timed_out |-> FALSE, results |-> <<>>,
      fatal |-> FALSE, max_pages |-> MAX_OCR_PAGES, prompt |-> PromptPlaceholders,
      left_running |-> 0,
      last_event |-> "", sentinels |-> 0, after_sentinel |-> FALSE ]

\* The worker threads of documents the batch has already left are counted up
\* to this many; left_running is a lower bound of their number.
MaxLeftRunning == 2

\* The end-of-stream event.
Sentinel == "[DONE]"

\* The generator yields the events in order: the stream's last event, the
\* number of sentinels sent and whether anything was sent after a sentinel.
RECURSIVE Emit(_, _)
Emit(pl, events) ==
    IF events = <<>> THEN pl
    ELSE Emit([pl EXCEPT !.last_event = Head(events),
                         !.sentinels = IF Head(events) = Sentinel THEN @ + 1 ELSE @,
                         !.after_sentinel = @ \/ pl.sentinels > 0],
              Tail(events))

\* The events of the outer except clause, of an empty selection, of the end of
\* the loop, and of one document's end.
FatalEvents_without_sentinel == <<"fatal_error", "traceback">>
FatalEvents == <<"fatal_error", "traceback", Sentinel>>
EmptyEvents == <<"no_unprocessed", Sentinel>>
CompletionEvents == <<"all_processed", Sentinel>>
DocumentEvents(outcome) == IF outcome = "ok" THEN <<"complete">> ELSE <<"error", "traceback">>

RECURSIVE NotProcessedFrom(_, _)
NotProcessedFrom(all_items, i) ==
    IF i > Len(all_items) THEN <<>>
    ELSE (IF ~all_items[i].AI_Processed
          THEN <<[NodeID |-> all_items[i].NodeID, Filename |-> all_items[i].Filename]>>
          ELSE <<>>)
         \o NotProcessedFrom(all_items, i + 1)

\* [item for item in all_items if not item.get('AI_Processed', False)][:count];
\* of each selected item the loop reads NodeID and Filename only.
Unprocessed(all_items, count) ==
    LET pending == NotProcessedFrom(all_items, 1)
    IN  SubSeq(pending, 1, Min(count, Len(pending)))

\* The metadata of the pipeline's upsert.
pipeline_metadata_without_extraction(extracted, total_time) ==
    [ ai_processed |-> PyBool(TRUE), ocr_method |-> "unknown", llm_used |-> ModelName,
      time_taken |-> Num(total_time) ]
pipeline_metadata(extracted, total_time) ==
    [ ai_invoice_number |-> extracted.invoice_number,
      ai_company_name |-> extracted.company_name,
      ai_invoice_date |-> extracted.invoice_date,
      ai_total_amount |-> extracted.total_amount,
      ai_confidence |-> extracted.confidence,
      ai_processed |-> PyBool(TRUE),
      ocr_method |-> extracted.ocr_method,
      llm_used |-> extracted.model_used,
      time_taken |-> Num(total_time) ]

\* The worker thread of handle h has not ended.
Running(h) == h \in DOMAIN bg /\ bg[h].pc \in {"page", "append", "text", "except"}

\* The batch lets go of the handle of the document just handled: nothing reads
\* it any more. Nobody joins or stops its worker thread: one that still runs
\* goes on running.
DropHandle(h) ==
    IF h \in DOMAIN ocr_results
    THEN /\ ocr_results' = WithoutHandle(ocr_results, h)
         /\ bg' = WithoutHandle(bg, h)
    ELSE /\ ocr_results' = ocr_results
         /\ bg' = bg
LeftRunning(pl, h) ==
    IF Running(h) THEN [pl EXCEPT !.left_running = Min(@ + 1, MaxLeftRunning)] ELSE pl

\* The worker thread of a document already left ends (its loop is over or an
\* exception ended it).
WorkerLeftEnds ==
    /\ pipe.left_running > 0
    /\ pipe' = [pipe EXCEPT !.left_running = @ - 1]
    /\ UNCHANGED <<store, call, sync, val, state, state_file, ocr_results, bg, ext, waiter,
                   ocr_call, auth, client, sess, req>>

\* The loop's step to the next invoice after document i ended with `outcome`
\* ("ok", or "error" from the except clause, which continues).
after_document_error_breaks(pl, outcome) ==
    IF pl.i < Len(pl.unprocessed) /\ outcome = "ok"
    THEN Emit([pl EXCEPT !.pc = "download", !.i = @ + 1, !.ocr = 0, !.extracted = <<>>,
                         !.waited = 0, !.timed_out = FALSE,
                         !.results = Append(@, outcome)],
              DocumentEvents(outcome) \o <<"next_document">>)
    ELSE Emit([pl EXCEPT !.pc = "done", !.ocr = 0, !.extracted = <<>>,
                         !.waited = 0, !.timed_out = FALSE,
                         !.results = Append(@, outcome)],
              DocumentEvents(outcome) \o CompletionEvents)
after_document(pl, outcome) ==
    IF pl.i < Len(pl.unprocessed)
    THEN Emit([pl EXCEPT !.pc = "download", !.i = @ + 1, !.ocr = 0, !.extracted = <<>>,
                         !.waited = 0, !.timed_out = FALSE,
                         !.results = Append(@, outcome)],
              DocumentEvents(outcome) \o <<"next_document">>)
    ELSE Emit([pl EXCEPT !.pc = "done", !.ocr = 0, !.extracted = <<>>,
                         !.waited = 0, !.timed_out = FALSE,
                         !.results = Append(@, outcome)],
              DocumentEvents(outcome) \o CompletionEvents)

\* POST /process_with_ai with {count, model}: the generator starts and loads the
\* model; a load failure is fatal.
PipeStart ==
    /\ pipe.pc \in {"idle", "done"}
    /\ call["pipe"].pc = "idle"
    /\ \E count \in 1..NumDocs, loaded \in BOOLEAN :
         pipe' = IF loaded
                 THEN Emit([IdlePipe EXCEPT !.pc = "fetch", !.count = count,
                                            !.max_pages = pipe.max_pages,
                                            !.prompt = pipe.prompt,
                                            !.left_running = pipe.left_running],
                           <<"loading_model", "model_loaded", "fetching">>)
                 ELSE Emit([IdlePipe EXCEPT !.pc = "done", !.count = count, !.fatal = TRUE,
                                            !.max_pages = pipe.max_pages,
                                            !.prompt = pipe.prompt,
                                            !.left_running = pipe.left_running],
                           <<"loading_model">> \o FatalEvents)
    /\ UNCHANGED <<store, call, sync, val, state, state_file, ocr_results, bg, ext, waiter, ocr_call,
                   auth, client, sess, req>>

\* get_all_items() and the selection of the batch; a failure is fatal, an empty
\* selection ends the run.
PipeFetch ==
    /\ pipe.pc = "fetch"
    /\ \E fetched \in BOOLEAN :
         pipe' = IF ~fetched
                 THEN Emit([pipe EXCEPT !.pc = "done", !.fatal = TRUE], FatalEvents)
                 ELSE LET unprocessed == Unprocessed(store, pipe.count)
                      IN  IF unprocessed = <<>>
                          THEN Emit([pipe EXCEPT !.pc = "done"], EmptyEvents)
                          ELSE Emit([pipe EXCEPT !.pc = "download", !.i = 1,
                                                 !.unprocessed = unprocessed],
                                    <<"found", "next_document">>)
    /\ UNCHANGED <<store, call, sync, val, state, state_file, ocr_results, bg, ext, waiter, ocr_call,
                   auth, client, sess, req>>

\* Document i: download from GCDocs and conversion to PDF.
PipeDownload ==
    /\ pipe.pc = "download"
    /\ \E downloaded \in BOOLEAN :
         pipe' = IF downloaded
                 THEN Emit([pipe EXCEPT !.pc = "ocr"],
                           <<"downloading", "downloaded", "reading_page_1">>)
                 ELSE after_document(Emit(pipe, <<"downloading">>), "error")
    /\ UNCHANGED <<store, call, sync, val, state, state_file, ocr_results, bg, ext, waiter, ocr_call,
                   auth, client, sess, req>>

\* Document i: ocr_result = perform_ocr(pdf_path, max_pages=MAX_OCR_PAGES).
PipeOcr ==
    /\ pipe.pc = "ocr"
    /\ \E pdf \in Pdfs :
         IF PerformOcrRaises(pdf)
         THEN /\ pipe' = after_document(pipe, "error")
              /\ UNCHANGED <<ocr_results, bg, waiter, ocr_call>>
         ELSE /\ pipe' = Emit([pipe EXCEPT !.pc = "extract", !.ocr = FreeHandle],
                               <<"page_1_ready", "analyzing">>)
              /\ \E o \in perform_ocr(pdf, pipe.max_pages) :
                   /\ ocr_results' = WithHandle(FreeHandle, o.result)
                   /\ bg' = WithThread(FreeHandle, o.thread)
    /\ UNCHANGED <<store, call, sync, val, state, state_file, ext, waiter, ocr_call, auth, client, sess, req>>

\* Document i: extracted = extractor.extract_invoice_data(ocr_result).
PipeExtract ==
    /\ pipe.pc = "extract"
    /\ \E r \in { extract_with_prompt(pipe.prompt, ocr_results[pipe.ocr], llm, obj) :
                      llm \in LLMBehaviours, obj \in ParsedObjects } :
             IF r.raised
             THEN /\ pipe' = LeftRunning(after_document(pipe, "error"), pipe.ocr)
                  /\ DropHandle(pipe.ocr)
             ELSE /\ pipe' = Emit([pipe EXCEPT !.pc = "wait", !.extracted = r.data],
                                   <<"extraction_complete">>)
                  /\ UNCHANGED <<ocr_results, bg, waiter, ocr_call>>
    /\ UNCHANGED <<store, call, sync, val, state, state_file, ext, waiter, ocr_call, auth, client, sess, req>>

\* Document i: the wait for the background OCR. The wait is skipped when
\* background_complete is already set; else wait_for_background_ocr(ocr_result,
\* timeout=30.0) polls until it is set or the timeout has passed.
PipeWait ==
    /\ pipe.pc = "wait"
    /\ LET r == wait_poll(ocr_results[pipe.ocr].background_complete, pipe.waited,
                          WaitTimeout)
       IN  pipe' = IF r = "sleep"
                   THEN [pipe EXCEPT !.waited = Min(@ + 1, WaitTimeout + 1)]
                   ELSE Emit([pipe EXCEPT !.pc = "upsert", !.timed_out = (r = "timeout")],
                             <<"updating_sharepoint">>)
    /\ UNCHANGED <<store, call, sync, val, state, state_file, ocr_results, bg, ext, waiter, ocr_call,
                   auth, client, sess, req>>

\* Document i: create_or_update_item is called with the extracted record.
PipeUpsert ==
    /\ pipe.pc = "upsert"
    /\ \E total_time \in 1..MaxElapsed :
         LET invoice == pipe.unprocessed[pipe.i]
             node_id == Int_(invoice.NodeID)
         IN  call' = [call EXCEPT !["pipe"] =
                        PendingCall(node_id, invoice.Filename, GCDocsURLOf(node_id),
                                    pipeline_metadata(pipe.extracted, total_time))]
    /\ pipe' = [pipe EXCEPT !.pc = "upserting"]
    /\ UNCHANGED <<store, sync, val, state, state_file, ocr_results, bg, ext, waiter, ocr_call,
                   auth, client, sess, req>>

\* Document i: create_or_update_item returned (cleanup, "Complete") or raised
\* (the except clause); either way the loop goes on.
PipeDocEnd ==
    /\ pipe.pc = "upserting"
    /\ call["pipe"].pc \in {"returned", "raised"}
    /\ pipe' = LeftRunning(after_document(pipe, IF call["pipe"].pc = "returned" THEN "ok"
                                                 ELSE "error"),
                            pipe.ocr)
    /\ call' = [call EXCEPT !["pipe"] = IdleCall]
    /\ DropHandle(pipe.ocr)
    /\ UNCHANGED <<store, sync, val, state, state_file, ext, waiter, ocr_call, auth, client, sess, req>>

\* ------------------------------------------- perform_ocr on drawn inputs
IdleOcrCall == [pc |-> "idle", pdf |-> <<>>, max_pages |-> 0, result |-> <<>>,
                engine_calls |-> 0]

\* One call of perform_ocr(pdf_path, max_pages=max_pages) up to its return:
\* the dict as it is when the return is executed, and the calls of the
\* recognition engine made by then.
PerformOcr ==
    /\ ocr_call.pc = "idle"
    /\ \E pdf \in Pdfs, max_pages \in MaxPagesArgs :
         IF PerformOcrRaises(pdf)
         THEN ocr_call' = [pc |-> "raised", pdf |-> pdf, max_pages |-> max_pages,
                           result |-> <<>>, engine_calls |-> 0]
         ELSE \E o \in perform_ocr(pdf, max_pages) :
                  ocr_call' = [pc |-> "returned", pdf |-> pdf, max_pages |-> max_pages,
                               result |-> o.result,
                               engine_calls |-> EngineCalls(o.thread)]
    /\ UNCHANGED <<store, call, sync, val, pipe, state, state_file, ocr_results, bg, ext,
                   waiter, auth, client, sess, req>>

\* ------------------------------------------- extraction on drawn inputs
\* The OcrResult values perform_ocr can return.
OcrOutputs ==
    UNION { { o.result : o \in perform_ocr(pdf, m) } : pdf \in Pdfs, m \in MaxPagesArgs }

IdleExt == [pc |-> "idle", ocr_result |-> <<>>, llm |-> <<>>, obj |-> <<>>,
            result |-> <<>>]

\* One call of extract_invoice_data on an OCR output and a behaviour of the
\* completion capability: its answers to the two prompts and the object a
\* parsing answer carries.
Extract ==
    /\ ext.pc = "idle"
    /\ \E o \in OcrOutputs, llm \in LLMBehaviours, obj \in ParsedObjects :
         ext' = [pc |-> "called", ocr_result |-> o, llm |-> llm, obj |-> obj,
                 result |-> extract_invoice_data(o, llm, obj)]
    /\ UNCHANGED <<store, call, sync, val, pipe, state, state_file, ocr_results, bg, waiter, ocr_call,
                   auth, client, sess, req>>

\* ------------------------------------------------------------ credential
\* Time is counted in units of five minutes.
\* timedelta(minutes=5): the safety margin before the expiry of the token.
ExpiryMargin == 1
\* timedelta(hours=1): the lifetime of a token.
TokenLifetime == 12
\* Last instant of the clock.
MaxClock == 14
\* Longest time one network request takes, its retries and back-off included.
MaxRequestTime == 1

ClientOps == {"login", "get_all_items", "get_item_by_node_id", "create_or_update_item"}

\* The steps of a client operation in order, on the path where the filtered
\* query answers: "check" is a call of _ensure_valid_token, every other step is
\* one network request. create_or_update_item checks, then calls
\* get_item_by_node_id, which checks again.
Program(op) ==
    IF op = "login" THEN <<"check", "site", "lists">>
    ELSE IF op = "get_all_items" THEN <<"check", "items">>
    ELSE IF op = "get_item_by_node_id" THEN <<"check", "filter">>
    ELSE <<"check", "check", "filter", "write">>

\* The steps of the fallback of get_item_by_node_id: get_all_items().
FallbackSteps == <<"check", "items">>

\* What credential.get_token returns: an AccessToken whose expires_on lies
\* 5 minutes, 1 hour, 90 minutes or a day after the call, or a token object
\* without that attribute.
TokenExpiries == {1, 12, 18, 288}
Tokens ==
    { [has_expires_on |-> FALSE, expires_on |-> 0] } \cup
    { [has_expires_on |-> TRUE, expires_on |-> e] : e \in TokenExpiries }

\* token_expires_at for a token obtained at time now: its expires_on, or one
\* hour from now when it has none.
ExpiresAt(token, now) ==
    IF token.has_expires_on THEN now + token.expires_on ELSE now + TokenLifetime

\* The condition of _ensure_valid_token.
NeedsRefresh(a) == ~a.token \/ a.now >= a.expires_at - ExpiryMargin

\* The tracker after __init__: no token, token_expires_at = now.
NewTracker ==
    [now |-> 0, token |-> FALSE, expires_at |-> 0, pc |-> "idle", op |-> "none",
     todo |-> <<>>, checks |-> 0, reauths |-> 0, requests |-> 0,
     stale_at_call |-> FALSE, late_reauth |-> FALSE]

\* The call goes on with the steps rest, or returns when none is left.
Proceed(a, rest) ==
    [a EXCEPT !.todo = rest, !.pc = IF rest = <<>> THEN "returned" ELSE "running"]

\* A caller invokes one operation of the client.
AuthCall ==
    /\ auth.pc # "running"
    /\ \E op \in ClientOps :
         auth' = [auth EXCEPT !.pc = "running", !.op = op, !.todo = Program(op),
                              !.checks = 0, !.reauths = 0, !.requests = 0,
                              !.stale_at_call = NeedsRefresh(auth),
                              !.late_reauth = FALSE]
    /\ UNCHANGED <<store, call, sync, val, pipe, state, state_file, ocr_results, bg, ext,
                   waiter, ocr_call, client, sess, req>>

\* _ensure_valid_token: when the token is absent or inside the margin,
\* credential.get_token is called; it returns a token that replaces the old one,
\* or raises out of the operation.
AuthCheck ==
    /\ auth.pc = "running"
    /\ Head(auth.todo) = "check"
    /\ IF NeedsRefresh(auth)
       THEN \/ \E token \in Tokens :
                 auth' = Proceed([auth EXCEPT !.token = TRUE,
                                              !.expires_at = ExpiresAt(token, auth.now),
                                              !.checks = @ + 1,
                                              !.reauths = @ + 1,
                                              !.late_reauth = @ \/ auth.requests > 0],
                                 Tail(auth.todo))
            \/ auth' = [auth EXCEPT !.pc = "raised", !.checks = @ + 1,
                                    !.reauths = @ + 1,
                                    !.late_reauth = @ \/ auth.requests > 0]
       ELSE auth' = Proceed([auth EXCEPT !.checks = @ + 1], Tail(auth.todo))
    /\ UNCHANGED <<store, call, sync, val, pipe, state, state_file, ocr_results, bg, ext,
                   waiter, ocr_call, client, sess, req>>

\* One network request of the operation: it takes some time and answers or
\* fails. A failure of the filtered query starts the fallback; any other
\* failure raises out of the operation.
AuthRequest ==
    /\ auth.pc = "running"
    /\ Head(auth.todo) # "check"
    /\ \E d \in 0..MaxRequestTime, ok \in BOOLEAN :
         /\ auth.now + d <= MaxClock
         /\ LET sent == [auth EXCEPT !.now = @ + d, !.requests = @ + 1]
            IN  auth' = IF ok THEN Proceed(sent, Tail(auth.todo))
                        ELSE IF Head(auth.todo) = "filter"
                        THEN Proceed(sent, FallbackSteps \o Tail(auth.todo))
                        ELSE [sent EXCEPT !.pc = "raised"]
    /\ UNCHANGED <<store, call, sync, val, pipe, state, state_file, ocr_results, bg, ext,
                   waiter, ocr_call, client, sess, req>>

\* Time passes between two calls.
AuthTick ==
    /\ auth.pc # "running"
    /\ auth.now < MaxClock
    /\ auth' = [auth EXCEPT !.now = @ + 1]
    /\ UNCHANGED <<store, call, sync, val, pipe, state, state_file, ocr_results, bg, ext,
                   waiter, ocr_call, client, sess, req>>

\* ------------------------------------- store client on drawn contents
\* Largest number of items of a drawn list.
MaxItems == 3

\* NodeIDs of the drawn items and arguments: the documents and one more.
NodeIds == 1..(NumDocs + 1)

\* The lists the store may hold: every sequence of up to MaxItems items, each
\* the item a sync created for some NodeID (several items may carry the same
\* NodeID), with the ids the server gave them.
StoreContents ==
    UNION { { [i \in 1..k |->
                 fields(f[i], FilenameOf(f[i]), GCDocsURLOf(f[i]), DEFAULT_METADATA)
                 @@ [id |-> i]] : f \in [1..k -> NodeIds] } : k \in 0..MaxItems }

\* Metadata arguments of create_or_update_item: plain values; amounts that are
\* NaN, infinite or not numbers and flags that are not bools; only some keys.
RawMetadata(m) ==
    IF m = 1
    THEN [ ai_invoice_number |-> "INV-1", ai_invoice_date |-> "2024-01-31",
           ai_company_name |-> "ACME", ai_total_amount |-> Num(120),
           ai_processed |-> PyBool(TRUE), ai_confidence |-> Num(1),
           human_invoice_number |-> "INV-2", human_invoice_date |-> "2024-02-01",
           human_company_name |-> "ACME Ltd", human_total_amount |-> Num(125),
           human_validated |-> PyBool(TRUE), human_flagged |-> PyBool(FALSE),
           human_notes |-> "checked" ]
    ELSE IF m = 2
    THEN [ ai_invoice_number |-> "INV-1", ai_invoice_date |-> "",
           ai_company_name |-> "ACME", ai_total_amount |-> NaN,
           ai_processed |-> PyInt(1), ai_confidence |-> Inf,
           human_invoice_number |-> "", human_invoice_date |-> "",
           human_company_name |-> "", human_total_amount |-> Text,
           human_validated |-> PyNone, human_flagged |-> PyStr(5),
           human_notes |-> "" ]
    ELSE [ human_invoice_number |-> "INV-3", human_total_amount |-> Num(7),
           human_flagged |-> PyStr(0) ]
MetadataChoices == 1..3

\* How the filtered request and the list request of a lookup go: answered,
\* rejected with 400 (filtered query only), retries exhausted, another error
\* status; "unsent" when the request is not reached.
FilterReplies == {"ok", "bad_request", "retry_exhausted", "http_error"}
ListReplies == {"ok", "retry_exhausted", "http_error"}

\* The exception a failed request raises: requests.exceptions.RetryError from
\* the transport once its retries are used up, HTTPError from raise_for_status.
ExceptionOf(reply) == IF reply = "retry_exhausted" THEN "RetryError" ELSE "HTTPError"

\* The path a lookup takes, given how its requests go.
LookupModeOf(filter_reply, list_reply) ==
    IF filter_reply = "ok" THEN "filter"
    ELSE IF list_reply = "ok" THEN "fallback"
    ELSE "unavailable"

LookupReturn(value) == [raised |-> FALSE, exc |-> "", value |-> value]
LookupRaise(exc) == [raised |-> TRUE, exc |-> exc, value |-> <<>>]

\* get_item_by_node_id with its requests: any exception of the filtered
\* query is caught and the scan of get_all_items() answers; an exception of
\* the list request propagates.
lookup(items, node_id, filter_reply, list_reply) ==
    LET mode == LookupModeOf(filter_reply, list_reply)
    IN  IF mode = "unavailable" THEN LookupRaise(ExceptionOf(list_reply))
        ELSE LookupReturn(get_item_by_node_id(items, node_id, mode))

\* create_or_update_item with its requests: the lookup, then the write; an
\* exception of either is raised to the caller and the list is left as it was.
upsert(items, node_id, metadata, filter_reply, list_reply, write_reply) ==
    LET found == lookup(items, node_id, filter_reply, list_reply)
        flds == fields(node_id, FilenameOf(node_id), GCDocsURLOf(node_id), metadata)
    IN  IF found.raised THEN [raised |-> TRUE, exc |-> found.exc, items |-> items]
        ELSE IF write_reply # "ok"
        THEN [raised |-> TRUE, exc |-> ExceptionOf(write_reply), items |-> items]
        ELSE [raised |-> FALSE, exc |-> "", items |-> StoreWrite(items, found.value, flds)]

\* The replies as recorded: a request that is not reached is "unsent".
Sent(filter_reply, list_reply, write_reply) ==
    [filter |-> filter_reply,
     list |-> IF filter_reply = "ok" THEN "unsent" ELSE list_reply,
     write |-> IF LookupModeOf(filter_reply, list_reply) = "unavailable"
               THEN "unsent" ELSE write_reply]

IdleClient ==
    [pc |-> "idle", before |-> <<>>, items |-> <<>>, node_id |-> 0, m |-> 0,
     sent |-> Sent("ok", "ok", "unsent"), out |-> LookupReturn(<<>>),
     read |-> LookupReturn(<<>>)]

\* get_item_by_node_id(node_id) on a drawn list.
ClientGet ==
    /\ client.pc = "idle"
    /\ \E items \in StoreContents, node_id \in NodeIds,
          fr \in FilterReplies, lr \in ListReplies :
         client' = [IdleClient EXCEPT !.pc = "looked", !.before = items, !.items = items,
                                      !.node_id = node_id,
                                      !.sent = Sent(fr, lr, "unsent"),
                                      !.out = lookup(items, node_id, fr, lr)]
    /\ UNCHANGED <<store, call, sync, val, pipe, state, state_file, ocr_results, bg, ext,
                   waiter, ocr_call, auth, sess, req>>

\* create_or_update_item(node_id, filename, gcdocs_url, metadata) on a drawn
\* list.
ClientUpsert ==
    /\ client.pc = "idle"
    /\ \E items \in StoreContents, node_id \in NodeIds, m \in MetadataChoices,
          fr \in FilterReplies, lr \in ListReplies, wr \in WriteModes :
         LET done == upsert(items, node_id, RawMetadata(m), fr, lr, wr)
         IN  client' = [IdleClient EXCEPT
                           !.pc = IF done.raised THEN "raised" ELSE "written",
                           !.before = items, !.items = done.items,
                           !.node_id = node_id, !.m = m,
                           !.sent = Sent(fr, lr, wr),
                           !.out = [raised |-> done.raised, exc |-> done.exc,
                                    value |-> <<>>]]
    /\ UNCHANGED <<store, call, sync, val, pipe, state, state_file, ocr_results, bg, ext,
                   waiter, ocr_call, auth, sess, req>>

\* get_item_by_node_id(node_id) right after the write of the same NodeID.
ClientRead ==
    /\ client.pc = "written"
    /\ \E fr \in FilterReplies, lr \in ListReplies :
         client' = [client EXCEPT !.pc = "read",
                                  !.read = lookup(client.items, client.node_id, fr, lr)]
    /\ UNCHANGED <<store, call, sync, val, pipe, state, state_file, ocr_results, bg, ext,
                   waiter, ocr_call, auth, sess, req>>

\* ------------------------------------------------------- specifications
\* The store after a completed sync of the folder: one item per document, all
\* fields at their defaults.
SyncedStore ==
    [n \in 1..NumDocs |->
        fields(n, FilenameOf(n), GCDocsURLOf(n), DEFAULT_METADATA) @@ [id |-> n]]

InitOthers ==
    /\ call = [t \in Tasks |-> IdleCall]
    /\ sync = [s \in Syncs |-> IdleSync]
    /\ val = IdleVal
    /\ state = DefaultState
    /\ state_file = NoFile
    /\ ocr_results = <<>>
    /\ bg = <<>>
    /\ ext = IdleExt
    /\ waiter = <<>>
    /\ ocr_call = IdleOcrCall
    /\ auth = NewTracker
    /\ client = IdleClient
    /\ sess = NewSessions
    /\ req = IdleReq

InitRest == pipe = IdlePipe /\ InitOthers

\* The application after start-up and a sync.
Init == store = SyncedStore /\ InitRest
\* The application before any sync: the list is empty.
InitEmpty == store = <<>> /\ InitRest

\* The batch run and the validation handler, as concurrent request handlers of
\* one application.
Next ==
    \/ PipeStart
    \/ PipeFetch
    \/ PipeDownload
    \/ PipeOcr
    \/ PipeExtract
    \/ PipeWait
    \/ PipeUpsert
    \/ PipeDocEnd
    \/ SaveValidation
    \/ SaveValidationReturn
    \/ \E t \in {"pipe", "val"} : CallLookup(t, FALSE)
    \/ \E t \in {"pipe", "val"} : CallWrite(t)

Spec == Init /\ [][Next]_vars

\* The batch run alone: one process_with_ai request after another.
NextBatch ==
    \/ PipeStart
    \/ PipeFetch
    \/ PipeDownload
    \/ PipeOcr
    \/ PipeExtract
    \/ PipeWait
    \/ PipeUpsert
    \/ PipeDocEnd
    \/ CallLookup("pipe", FALSE)
    \/ CallWrite("pipe")

SpecBatch == Init /\ [][NextBatch]_vars

\* The batch run and the two session routes as concurrent request handlers.
NextCancel ==
    \/ NextBatch
    \/ cancel_processing
    \/ get_processing_state

SpecCancel == Init /\ [][NextCancel]_vars

\* The values OCRConfig.MAX_OCR_PAGES is set to: the one shipped and larger
\* ones, with which perform_ocr starts a worker thread for pages 2..N.
ConfiguredMaxPages == MAX_OCR_PAGES..MaxDocPages

InitConfigured ==
    /\ store = SyncedStore
    /\ \E m \in ConfiguredMaxPages : pipe = [IdlePipe EXCEPT !.max_pages = m]
    /\ InitOthers

\* The batch run together with the worker threads its perform_ocr calls start.
NextBatchOcr ==
    \/ NextBatch
    \/ \E h \in HandleIds : BgProcessPage(h)
    \/ \E h \in HandleIds : BgAppendPage(h)
    \/ \E h \in HandleIds : BgError(h)
    \/ \E h \in HandleIds : BgAppendText(h)
    \/ \E h \in HandleIds : BgComplete(h)
    \/ WorkerLeftEnds

SpecBatchOcr == InitConfigured /\ [][NextBatchOcr]_vars

\* The replacement fields AIConfig.INVOICE_EXTRACTION_PROMPT is configured
\* with: the ones shipped, and the ones extract_invoice_data passes to format.
ConfiguredPrompts == {PromptPlaceholders, PromptArguments}

\* The store after a sync of a folder that holds one document.
OneDocumentStore ==
    <<fields(1, FilenameOf(1), GCDocsURLOf(1), DEFAULT_METADATA) @@ [id |-> 1]>>

InitPrompt ==
    /\ store = OneDocumentStore
    /\ \E m \in ConfiguredMaxPages, f \in ConfiguredPrompts :
         pipe = [IdlePipe EXCEPT !.max_pages = m, !.prompt = f]
    /\ InitOthers

\* The batch and its worker threads under every configured page cap and
\* prompt template.
SpecBatchPrompt == InitPrompt /\ [][NextBatchOcr]_vars

\* Batch runs and validations as concurrent request handlers.
NextReview ==
    \/ NextBatch
    \/ SaveValidation
    \/ SaveValidationReturn
    \/ CallLookup("val", FALSE)
    \/ CallWrite("val")

SpecReview == Init /\ [][NextReview]_vars

\* Sync runs and validations whose create_or_update_item calls follow one
\* another: no call starts its lookup while another is before its write.
NextSeq ==
    \/ \E s \in Syncs : SyncStart(s)
    \/ \E s \in Syncs : SyncCheck(s)
    \/ \E s \in Syncs : SyncNext(s)
    \/ SaveValidation
    \/ SaveValidationReturn
    \/ \E t \in Syncs \cup {"val"} : CallLookup(t, TRUE)
    \/ \E t \in Syncs \cup {"val"} : CallWrite(t)

SpecSeq == InitEmpty /\ [][NextSeq]_vars

\* The same handlers with their calls interleaved freely.
NextConc ==
    \/ \E s \in Syncs : SyncStart(s)
    \/ \E s \in Syncs : SyncCheck(s)
    \/ \E s \in Syncs : SyncNext(s)
    \/ SaveValidation
    \/ SaveValidationReturn
    \/ \E t \in Syncs \cup {"val"} : CallLookup(t, FALSE)
    \/ \E t \in Syncs \cup {"val"} : CallWrite(t)

SpecConc == InitEmpty /\ [][NextConc]_vars

\* OCR runs with their background workers.
NextOcr ==
    \/ OcrCall
    \/ \E h \in HandleIds : BgProcessPage(h)
    \/ \E h \in HandleIds : BgAppendPage(h)
    \/ \E h \in HandleIds : BgError(h)
    \/ \E h \in HandleIds : BgAppendText(h)
    \/ \E h \in HandleIds : BgComplete(h)
    \/ \E h \in HandleIds : WaitCall(h)
    \/ \E h \in HandleIds : WaitPoll(h)
    \/ \E h \in HandleIds : OcrRelease(h)

SpecOcr == InitEmpty /\ [][NextOcr]_vars

\* The same, with every waiting caller scheduled again after each sleep; the
\* worker threads are given no fairness (a worker may never end).
SpecOcrLive == SpecOcr /\ \A h \in HandleIds : WF_vars(WaitPoll(h))

\* perform_ocr applied to every drawn input.
SpecPerformOcr == InitEmpty /\ [][PerformOcr]_vars

\* The extraction engine applied to every drawn input.
SpecExtract == InitEmpty /\ [][Extract]_vars

\* Calls of the client operations as time passes.
NextAuth ==
    \/ AuthCall
    \/ AuthCheck
    \/ AuthRequest
    \/ AuthTick

SpecAuth == InitEmpty /\ [][NextAuth]_vars

\* The store client applied to every drawn list and argument.
NextClient ==
    \/ ClientGet
    \/ ClientUpsert
    \/ ClientRead

SpecClient == InitEmpty /\ [][NextClient]_vars

\* The operations of the global session instance in any order.
NextSession ==
    \/ SessionAddLog
    \/ SessionStart
    \/ SessionStop
    \/ SessionProgress
    \/ SessionClearLogs
    \/ SessionReset

SpecSession == InitEmpty /\ [][NextSession]_vars

\* Two instances on one state file, their calls interleaved.
NextInstances ==
    \/ \E i \in Instances : MgrMutate(i)
    \/ \E i \in Instances : MgrSaved(i)
    \/ \E i \in Instances : MgrGetState(i)

SpecInstances == InitEmpty /\ [][NextInstances]_vars

\* ------------------------------------------------------------------ claims
\* Number of store items whose NodeID column is that of document n.
RECURSIVE CountFrom(_, _, _)
CountFrom(items, n, i) ==
    IF i > Len(items) THEN 0
    ELSE (IF items[i].NodeID = Str(n) THEN 1 ELSE 0) + CountFrom(items, n, i + 1)
RecordsOf(items, n) == CountFrom(items, n, 1)

\* The step in which task t's create_or_update_item write is accepted.
WriteAccepted(t) == call[t].pc = "write" /\ call'[t].pc = "returned"

\* C1: with create_or_update_item calls that follow one another, a call's
\* accepted write creates a record when the store holds none for its
\* document_id and otherwise updates the one record in place; afterwards the
\* store holds exactly one record for that document_id, and never more than one
\* for any.
C1_SequentialUpsertOneRecord ==
    [][\A t \in Tasks :
          WriteAccepted(t) =>
              /\ Len(store') = Len(store) +
                     (IF RecordsOf(store, call[t].node_id) = 0 THEN 1 ELSE 0)
              /\ RecordsOf(store', call[t].node_id) = 1
              /\ \A n \in Docs : RecordsOf(store', n) <= 1]_vars

\* C1's case: every document has been created by a sync, and a later call for
\* one of them (a validation) has updated its record.
C1_Witness ==
    /\ Len(store) = NumDocs
    /\ \E i \in 1..Len(store) : store[i].Human_Validated
    /\ call["val"].pc = "returned"

\* C2: an accepted upsert of the batch pipeline leaves every human_* field of
\* every record as it was before the upsert.
C2_PipelineUpsertKeepsHumanFields ==
    [][WriteAccepted("pipe") =>
          /\ Len(store') = Len(store)
          /\ \A i \in 1..Len(store) : \A f \in HumanFieldNames :
                store'[i][f] = store[i][f]]_vars

\* The first record of document n in the store.
RecordOf(items, n) == LookupScan(items, n)[1]

\* C3: an accepted validation write leaves the record's AI and provenance
\* fields equal to the values save_validation read at the start of the call,
\* sets every human field from the request (the amount through clean_float) and
\* sets Human_Validated.
C3_ValidationPreservesAIFields ==
    [][WriteAccepted("val") =>
          LET before == val.existing[1]
              after == RecordOf(store', val.req.node_id)
          IN  /\ \A f \in AIFieldNames \cup ProvenanceFieldNames : after[f] = before[f]
              /\ after.Human_InvoiceNumber = val.req.invoice_number
              /\ after.Human_CompanyName = val.req.company_name
              /\ after.Human_InvoiceDate = val.req.invoice_date
              /\ after.Human_TotalAmount = clean_float(val.req.total_amount)
              /\ after.Human_Notes = val.req.notes
              /\ after.Human_Flagged = val.req.flagged
              /\ after.Human_Validated = TRUE]_vars

\* C3's case: a validation of a record that holds AI results has been written.
C3_Witness ==
    /\ val.pc = "upsert"
    /\ call["val"].pc = "returned"
    /\ val.existing[1].AI_Processed
    /\ val.existing[1].LLM_Used = ModelName
    /\ RecordOf(store, val.req.node_id).Human_Validated

\* C4: in every state of an OCR run, full_text is the ordered concatenation of
\* the sections of the pages present in pages.
C4_FullTextMatchesPages ==
    \A h \in DOMAIN ocr_results :
        ocr_results[h].full_text = SectionsOf(ocr_results[h].pages)

\* C5: under any interleaving of create_or_update_item calls for one
\* document_id, the store never holds two records for that document_id.
C5_ConcurrentUpsertOneRecord ==
    \A n \in Docs : RecordsOf(store, n) <= 1

\* C6: an accepted pipeline upsert of a record whose extraction returned with
\* its error field set leaves the document unmarked (AI_Processed false).
C6_ErroredDocumentLeftUnprocessed ==
    [][(WriteAccepted("pipe") /\ Get(pipe.extracted, "error", "") # "") =>
          ~RecordOf(store', call["pipe"].node_id).AI_Processed]_vars

\* The fields every ExtractedRecord carries.
RecordFields ==
    {"invoice_number", "company_name", "invoice_date", "total_amount",
     "confidence", "model_used", "ocr_method"}

\* C7: every call of extract_invoice_data returns, and returns a record with
\* all its fields; when the record's error is set its string fields are empty
\* and its amount and confidence are 0.
C7_ExtractNeverRaises ==
    ext.pc = "called" =>
        /\ ~ext.result.raised
        /\ RecordFields \subseteq DOMAIN ext.result.data
        /\ Get(ext.result.data, "error", "") # "" =>
              /\ ext.result.data.invoice_number = ""
              /\ ext.result.data.company_name = ""
              /\ ext.result.data.invoice_date = ""
              /\ ext.result.data.total_amount = Num(0)
              /\ ext.result.data.confidence = Num(0)

\* The batch is at one of the per-document stages.
InDocument == pipe.pc \in {"download", "ocr", "extract", "wait", "upsert", "upserting"}

\* C8: a failing document does not stop the batch: the document in hand is the
\* one after all those already ended, failed or not, and a run that was not
\* ended by a fatal error has ended every document of its batch.
C8_BatchContinuesAfterFailure ==
    /\ InDocument => pipe.i = Len(pipe.results) + 1 /\ pipe.i <= Len(pipe.unprocessed)
    /\ (pipe.pc = "done" /\ ~pipe.fatal) => Len(pipe.results) = Len(pipe.unprocessed)

\* C8's case: the first document of the batch failed and the second has been
\* driven through OCR and extraction to its store upsert.
C8_Witness ==
    /\ pipe.pc = "upserting"
    /\ pipe.i = 2
    /\ pipe.results = <<"error">>
    /\ call["pipe"].pc = "returned"

\* C9: when the batch ends a document, the session's current_count advances,
\* and for a failed document console_logs gains an entry.
C9_PipelineUpdatesSessionState ==
    [][Len(pipe'.results) = Len(pipe.results) + 1 =>
          /\ state'.current_count = state.current_count + 1
          /\ pipe'.results[Len(pipe'.results)] = "error" =>
                Len(state'.console_logs) = Len(state.console_logs) + 1]_vars

\* The session has been cancelled: the cancel entry is logged and the flag is
\* false.
Cancelled ==
    /\ ~state.is_processing
    /\ \E k \in 1..Len(state.console_logs) : state.console_logs[k].message = CancelMessage

\* C10: once the session is cancelled, the loop does not go on from the
\* document in hand to the next one.
C10_NoDocumentStartedAfterCancel ==
    [][(Cancelled /\ InDocument) => pipe'.i = pipe.i]_vars

\* C11: within one document the steps come in order: extraction starts on a
\* handle perform_ocr has returned; the wait and the upsert come after the
\* extraction has returned its record, which is the record upserted; and the
\* upsert is issued only once the handle's background_complete is set or the
\* wait has timed out.
C11_StepsInOrder ==
    /\ pipe.pc \in {"extract", "wait", "upsert", "upserting"} =>
          pipe.ocr \in DOMAIN ocr_results
    /\ pipe.pc \in {"wait", "upsert", "upserting"} => pipe.extracted # <<>>
    /\ pipe.pc \in {"upsert", "upserting"} =>
          ocr_results[pipe.ocr].background_complete \/ pipe.timed_out
    /\ pipe.pc = "upserting" =>
          /\ call["pipe"].flds.OCR_Method = ocr_results[pipe.ocr].method
          /\ call["pipe"].flds.LLM_Used = pipe.extracted.model_used
          /\ call["pipe"].flds.AI_InvoiceNumber = pipe.extracted.invoice_number

\* C11's case: perform_ocr returned with its worker running, the extraction
\* returned a record parsed from the model's answer, the wait timed out with
\* the worker still running, and the upsert has been issued.
C11_Witness ==
    /\ pipe.pc = "upserting"
    /\ call["pipe"].pc = "pending"
    /\ pipe.extracted # <<>>
    /\ pipe.extracted.ocr_method = "paddleocr_optimized"
    /\ pipe.timed_out
    /\ Running(pipe.ocr)
    /\ ~ocr_results[pipe.ocr].background_complete

\* The same with the other way out of the wait: the worker completed while the
\* batch was sleeping in wait_for_background_ocr.
C11_WaitedForWorker ==
    /\ pipe.pc = "upserting"
    /\ pipe.waited > 0
    /\ ~pipe.timed_out
    /\ bg[pipe.ocr].pc = "done"

\* C12: every wait_for_background_ocr call in progress returns, whatever the
\* worker does.
C12_WaitTerminates ==
    \A h \in HandleIds :
        (h \in DOMAIN waiter /\ waiter[h].pc = "polling")
            ~> (h \in DOMAIN waiter /\ waiter[h].pc = "returned")

\* C12's case: a wait has returned by timeout on a handle whose worker has not
\* completed, and its caller holds the partial text (page 1 only).
C12_Witness ==
    \E h \in DOMAIN waiter :
        /\ waiter[h].pc = "returned"
        /\ waiter[h].timed_out
        /\ ~ocr_results[h].background_complete
        /\ Len(waiter[h].text) = 1

\* The recognized pages 1..n, in order.
PagesUpTo(n) == [k \in 1..n |-> PageData(k)]

\* C13: a worker that has finished has appended every page up to its last to
\* the handle perform_ocr returned and set background_complete; a worker that
\* has failed has set background_error, and page 1 and every page appended
\* before the failure are still in pages and in full_text; until it finishes
\* background_complete stays unset.
C13_BackgroundAppendsAndKeepsPages ==
    \A h \in DOMAIN bg :
        LET r == ocr_results[h]
        IN  /\ bg[h].pc = "done" =>
                  /\ r.background_complete
                  /\ r.background_error = ""
                  /\ r.pages = PagesUpTo(bg[h].end_page)
                  /\ r.full_text = SectionsOf(r.pages)
            /\ bg[h].pc = "failed" =>
                  /\ r.background_error # ""
                  /\ ~r.background_complete
                  /\ r.pages = PagesUpTo(bg[h].page_num)
                  /\ r.full_text = SectionsOf(r.pages)
            /\ bg[h].pc \in {"page", "append", "text", "except"} =>
                  /\ ~r.background_complete
                  /\ SubSeq(r.pages, 1, bg[h].page_num) = PagesUpTo(bg[h].page_num)

\* C13's case: the worker appended page 2 and failed at page 3.
C13_Witness ==
    \E h \in DOMAIN bg :
        /\ bg[h].pc = "failed"
        /\ Len(ocr_results[h].pages) = 2
        /\ Len(ocr_results[h].full_text) = 2

\* C14: once the OCR of a document has ended (no worker, or the worker finished
\* or failed), every page up to the page cap on which recognition did not
\* raise is present in the result, by recognition or by native text.
C14_BadPageDoesNotAbortDocument ==
    \A h \in DOMAIN bg :
        (bg[h].pc \in {"none", "done", "failed"} /\ ocr_results[h].method # "error") =>
            \A p \in (1..ocr_results[h].total_pages) \ bg[h].recog_fails :
                \E k \in 1..Len(ocr_results[h].pages) :
                    ocr_results[h].pages[k].page_num = p

\* C15: for a document whose embedded text on page 1 is ample, perform_ocr does
\* not call the recognition engine and does not return the recognition
\* engine's method.
C15_NativeTextPreferred ==
    (ocr_call.pc = "returned" /\ ocr_call.pdf.native_text = "ample") =>
        /\ ocr_call.engine_calls = 0
        /\ ocr_call.result.method # "paddleocr_optimized"

\* C16: at every moment of an OCR run the pages present in the result number
\* at most min(page count, max_pages), which perform_ocr records as the
\* result's total_pages, and none of them has a page_num above it.
C16_PageCap ==
    \A h \in DOMAIN ocr_results :
        ocr_results[h].method # "error" =>
            /\ Len(ocr_results[h].pages) <= ocr_results[h].total_pages
            /\ \A k \in 1..Len(ocr_results[h].pages) :
                  ocr_results[h].pages[k].page_num <= ocr_results[h].total_pages

\* C17: every client operation checks the credential before its network
\* requests; a call made with the credential absent or inside the margin
\* re-authenticates exactly once, before any of its requests, and a call made
\* with the credential outside the margin never re-authenticates.
C17_OneReauthBeforeRequests ==
    auth.pc # "idle" =>
        /\ auth.requests > 0 => auth.checks > 0
        /\ ~auth.late_reauth
        /\ auth.stale_at_call =>
              /\ auth.reauths <= 1
              /\ auth.requests > 0 => auth.reauths = 1
        /\ ~auth.stale_at_call => auth.reauths = 0

\* C18: whenever the filtered query of get_item_by_node_id fails and the scan
\* of the full collection answers, the lookup returns what the filtered query
\* returns on the same list for the same NodeID: the same item, or None.
C18_FallbackEqualsFilter ==
    (client.pc = "looked" /\ client.sent.filter # "ok" /\ ~client.out.raised) =>
        client.out = lookup(client.before, client.node_id, "ok", "ok")

\* A fallback lookup found an item on a list that holds two items with the
\* NodeID looked up.
C18_Witness ==
    /\ client.pc = "looked"
    /\ client.sent.filter = "bad_request"
    /\ client.sent.list = "ok"
    /\ client.out.value # <<>>
    /\ Len(FilterQuery(client.before, Str(client.node_id))) >= 2

\* C19: whenever a request of a store operation (lookup or write) exhausts the
\* retries of the transport, the operation raises the store-unavailable failure
\* (RetryError) to its caller: it neither returns normally (an item, None, a
\* completed write) nor raises another error.
C19_RetryExhaustionSurfaces ==
    (/\ client.pc \in {"looked", "written", "raised"}
     /\ "retry_exhausted" \in {client.sent.filter, client.sent.list, client.sent.write}) =>
        /\ client.out.raised
        /\ client.out.exc = "RetryError"

\* The metadata keys of the AI and human fields, by kind, with their columns.
TextColumn ==
    [ ai_invoice_number |-> "AI_InvoiceNumber", ai_invoice_date |-> "AI_InvoiceDate",
      ai_company_name |-> "AI_CompanyName",
      human_invoice_number |-> "Human_InvoiceNumber",
      human_invoice_date |-> "Human_InvoiceDate",
      human_company_name |-> "Human_CompanyName", human_notes |-> "Human_Notes" ]
NumberColumn ==
    [ ai_total_amount |-> "AI_TotalAmount", ai_confidence |-> "AI_Confidence",
      human_total_amount |-> "Human_TotalAmount" ]
FlagColumn ==
    [ ai_processed |-> "AI_Processed", human_validated |-> "Human_Validated",
      human_flagged |-> "Human_Flagged" ]

\* C20: a successful create_or_update_item followed at once by a successful
\* get_item_by_node_id for the same NodeID returns a record in which every AI
\* and human field of the metadata written has the value written, a numeric
\* value that is not a finite number reads 0 and a flag reads as the boolean
\* of its value.
C20_RoundTrip ==
    (client.pc = "read" /\ ~client.read.raised) =>
        /\ client.read.value # <<>>
        /\ LET md == RawMetadata(client.m)
               rec == client.read.value[1]
           IN  \A key \in DOMAIN md :
                 /\ key \in DOMAIN TextColumn => rec[TextColumn[key]] = md[key]
                 /\ key \in DOMAIN NumberColumn =>
                       rec[NumberColumn[key]] = IF md[key].k = "num" THEN md[key].v ELSE 0
                 /\ key \in DOMAIN FlagColumn =>
                       rec[FlagColumn[key]] =
                           (md[key] \notin {PyNone, PyBool(FALSE), PyInt(0), PyStr(0)})

\* The write updated the first of two items with the NodeID, with metadata
\* whose amounts are not finite numbers and whose flags are not bools, and the
\* read went through the fallback scan.
C20_Witness ==
    /\ client.pc = "read"
    /\ ~client.read.raised
    /\ client.m = 2
    /\ Len(FilterQuery(client.before, Str(client.node_id))) >= 2
    /\ client.read.value[1].AI_TotalAmount = 0
    /\ client.read.value[1].Human_Flagged = TRUE
    /\ client.read.value[1].Human_Validated = FALSE

\* C21: when create_or_update_item raises a re-authentication failure while a
\* document is being upserted, the batch ends there: the loop does not go on to
\* the next document.
C21_ReauthFailureEndsBatch ==
    [][(/\ pipe.pc = "upserting"
        /\ call["pipe"].pc = "raised"
        /\ call["pipe"].error = "auth"
        /\ pipe'.pc # "upserting") => pipe'.pc = "done"]_vars

\* C22: a run of the progress stream that has ended has sent the sentinel
\* exactly once, as its last event, and a run that has not ended has not sent
\* it: on every path (model load failure, fetch failure, empty selection, end
\* of the loop with or without per-document errors).
C22_StreamEndsWithSentinel ==
    /\ pipe.pc = "done" =>
          /\ pipe.sentinels = 1
          /\ pipe.last_event = Sentinel
          /\ ~pipe.after_sentinel
    /\ pipe.pc \notin {"idle", "done"} => pipe.sentinels = 0

\* A run ended by a fatal error, and a run that ended after a document failed.
C22_Witness ==
    /\ pipe.pc = "done"
    /\ pipe.last_event = Sentinel
    /\ \/ pipe.fatal
       \/ Len(pipe.results) = 2 /\ pipe.results[1] = "error"

\* C23: after every sequence of session operations console_logs holds at most
\* LogCap entries, and they are the most recent lines added since the logs were
\* last emptied, in the order they were added: what is dropped is the oldest.
C23_LogKeepsMostRecent ==
    LET logs == state.console_logs
    IN  /\ Len(logs) <= LogCap
        /\ Len(logs) = Min(sess.adds, LogCap)
        /\ \A k \in 1..Len(logs) : logs[k].message = sess.adds - Len(logs) + k

\* The log is full and its oldest lines have been dropped.
C23_Witness ==
    /\ Len(state.console_logs) = LogCap
    /\ state.console_logs[1].message > 1
    /\ state.console_logs[LogCap].message = LogCap + MaxOverflow

\* C24: what a get_state call returns is never older than the state the last
\* completed mutation saved: it is that state or the state of a mutation being
\* saved at the time, and in particular not the all-default state once a
\* mutation has completed.
C24_ReaderSeesLastCompletedMutation ==
    sess.seen.by # "none" => sess.seen.value \in sess.seen.fresh

\* C30: when the two instances' mutations follow one another without overlap,
\* the persisted state reflects every completed mutation: the progress one
\* instance saved and the log lines the other saved are both in the file.
C30_NoLostMutation ==
    (~sess.overlapped /\ ~FileBeingWritten) =>
        /\ (\E d \in sess.done : d[2] = "progress") =>
              _load_state(state_file).current_count = 1
        /\ Len(_load_state(state_file).console_logs) =
              Cardinality({d \in sess.done : d[2] = "log"})

\* ------------------------------------------------ extraction: retry, fields
\* The text of the OCR output is long enough for the model to be called.
EnoughText == StrippedLen(ext.ocr_result.full_text) >= MinTextLen

\* What the code from the first model call on (extraction.py:125-217) gives
\* for the inputs of the call in hand, the prompt having been built.
FromFirstCall == CompleteAndParse(ext.ocr_result.method, ext.llm, ext.obj)

\* What the parse and clean-up (extraction.py:159-217) give for a completion
\* that parses to the object of the call in hand.
FromParsedObject == ParseCompletion(ext.ocr_result.method, "object", ext.obj, 1)

\* C25: when the first completion is usable in form but does not parse, the
\* completion capability is called a second time (the simplified prompt) before
\* a failure record is returned; it is never called more than twice.
C25_RetryAfterParseFailure ==
    (ext.pc = "called" /\ EnoughText) =>
        /\ FromFirstCall.llm_calls <= 2
        /\ ext.llm[1] = "invalid" =>
              /\ FromFirstCall.llm_calls = 2
              /\ ext.llm[2] = "invalid" =>
                    (~FromFirstCall.raised /\ Get(FromFirstCall.data, "error", "") # "")

\* The amount of the parsed object has a digit in it.
HasDigits(raw) == raw.k \in {"number", "currency", "with_unit"}

\* C26: whatever total_amount the parsed completion carries, the record's
\* total_amount is a finite number, and 0 when the value has no digit.
C26_AmountFinite ==
    (ext.pc = "called" /\ EnoughText) =>
        /\ FromParsedObject.data.total_amount.k = "num"
        /\ ~HasDigits(ext.obj.total_amount) =>
              FromParsedObject.data.total_amount = Num(0)

\* The dates of the form YYYY-MM-DD among the modelled ones.
IsoDates == {"2025-11-13"}
NullOrIso(d) == d = JsonNull \/ d \in IsoDates

\* C27: the invoice_date of every returned record is null or YYYY-MM-DD; a
\* date the model wrote in another form does not reach the record unchanged.
C27_DateNullOrIso ==
    ext.pc = "called" =>
        /\ ~ext.result.raised => NullOrIso(ext.result.data.invoice_date)
        /\ EnoughText =>
              /\ NullOrIso(FromParsedObject.data.invoice_date)
              /\ ~NullOrIso(ext.obj.invoice_date) =>
                    FromParsedObject.data.invoice_date # ext.obj.invoice_date

\* ------------------------------------- the batch and its worker threads
\* The worker threads known to be live: the one of the document in hand and
\* those left running.
LiveWorkers == (IF Running(pipe.ocr) THEN 1 ELSE 0) + pipe.left_running

\* C28: when extract_invoice_data is called on a handle for which perform_ocr
\* started a worker thread, the full_text it reads holds page 1's section and
\* no other, wherever the worker is.
C28_ExtractionReadsPageOne ==
    [][(pipe.pc = "extract" /\ pipe'.pc # "extract" /\ bg[pipe.ocr].pc # "none") =>
          ocr_results[pipe.ocr].full_text = <<Section(PageData(1))>>]_vars

\* C29: the batch does not leave a document (remove its PDF, go on to the
\* next invoice) while that document's worker thread is live, and at most one
\* worker thread is live at any time.
C29_OneLiveWorker ==
    [][/\ Running(pipe.ocr) => pipe'.ocr = pipe.ocr
       /\ LiveWorkers' <= 1]_vars

====
